---- MODULE Spec2Model ----
(***************************************************************************)
(* Provider adapter streams (OpenAI-compatible, Anthropic, Azure), the     *)
(* Turn engine that consumes their units, and the non-interactive tool     *)
(* call executor of gemini-cli.                                            *)
(*                                                                         *)
(* Text that the code parses as JSON (tool-call arguments) is a sequence   *)
(* of one-character strings; every other string is a TLA+ string.  The JS  *)
(* value undefined is the string Undefined where a string is expected and  *)
(* the record UndefinedVal where a JSON value is expected.                 *)
(***************************************************************************)
EXTENDS Integers, Sequences, FiniteSets, TLC

(* ------------------------------ bounds -------------------------------- *)

\* lines (valid or not) the backend sends on one stream before it closes it
MaxLines == 4
\* characters of argument text one tool-call chunk carries at most
MaxFragLen == 3
\* units the native generator yields on one stream
MaxUnits == 3
\* unparseable lines among the lines of one stream
MaxGarbage == 2
\* Turns (exchanges) of one run of the program
MaxTurns == 2
\* invocations of the tool call executor
MaxInvocations == 2
\* Contents in the history of a generation request
MaxContents == 2
\* lines of a stream that carries two tool calls
MaxWireLines == 7
\* text deltas among them
MaxWireTexts == 2
\* lines of each of two streams that are open at the same time
MaxConcLines == 4
\* lines of a byte stream, and bytes of a chunk that is not all the rest
MaxNetLines == 2
MaxChunk == 3
\* lines of an Anthropic stream of content blocks
MaxBlockLines == 4

(* --------------------------- JavaScript values ------------------------ *)

Undefined == "$undefined"

\* JS truthiness of a string-or-undefined value
Truthy(s) == s # Undefined /\ s # ""

\* `${s}` in a template literal
TemplateStr(s) == IF s = Undefined THEN "undefined" ELSE s

UndefinedVal == [t |-> "undefined"]
EmptyObj == [t |-> "obj", kv |-> <<>>]

Digits == {"1", "2"}
DigitVal(c) == IF c = "1" THEN 1 ELSE 2

\* number of leading digit characters of s
RECURSIVE DigitRun(_)
DigitRun(s) ==
  IF s # <<>> /\ Head(s) \in Digits THEN 1 + DigitRun(Tail(s)) ELSE 0

RECURSIVE NumVal(_, _)
NumVal(s, a) ==
  IF s = <<>> THEN a ELSE NumVal(Tail(s), 10 * a + DigitVal(Head(s)))

Drop(s, n) == SubSeq(s, n + 1, Len(s))
Take(s, n) == SubSeq(s, 1, n)

ParseFail == [ok |-> FALSE, val |-> UndefinedVal, rest |-> <<>>]

\* one JSON value at the front of s: a number, {} or {k:value}
\* {k:value}: the object once the value after 'k:' has been parsed as r
ObjectOf(r) ==
  IF r.ok /\ r.rest # <<>> /\ Head(r.rest) = "}"
  THEN [ok |-> TRUE, val |-> [t |-> "obj", kv |-> << <<"k", r.val>> >>],
        rest |-> Tail(r.rest)]
  ELSE ParseFail

\* the number made of the first n characters of s
NumberOf(s, n) ==
  [ok |-> TRUE, val |-> [t |-> "num", n |-> NumVal(Take(s, n), 0)],
   rest |-> Drop(s, n)]

\* one JSON value at the front of s: a number, {} or {k:value}
RECURSIVE ParseValue(_)
ParseValue(s) ==
  IF s = <<>> THEN ParseFail
  ELSE IF Head(s) \in Digits THEN NumberOf(s, DigitRun(s))
  ELSE IF Head(s) = "{" THEN
    IF Len(s) >= 2 /\ s[2] = "}" THEN
      [ok |-> TRUE, val |-> EmptyObj, rest |-> Drop(s, 2)]
    ELSE IF Len(s) >= 3 /\ s[2] = "k" /\ s[3] = ":" THEN
      ObjectOf(ParseValue(Drop(s, 3)))
    ELSE ParseFail
  ELSE ParseFail

\* the whole text must be one value
WholeText(r) ==
  IF r.ok /\ r.rest = <<>> THEN [ok |-> TRUE, val |-> r.val]
  ELSE [ok |-> FALSE, val |-> UndefinedVal]

\* JSON.parse(s): ok = FALSE stands for the SyntaxError it throws
JSONParse(s) == WholeText(ParseValue(s))

\* try { args = JSON.parse(..) } catch { args = {} }
ArgsOrEmpty(parsed) == IF parsed.ok THEN parsed.val ELSE EmptyObj

(* --------------------------- unified model ---------------------------- *)

\* A text is a sequence of tokens; Absent is a text or an argument string
\* that is undefined.
Absent == <<Undefined>>
TextTruthy(x) == x # Absent /\ x # <<>>

\* GenerateContentResponse: one response unit
Unit(text, calls, reason) ==
  [text |-> text, thought |-> FALSE, functionCalls |-> calls,
   finishReason |-> reason]

\* null: the conversion produced no unit
NullUnit == [text |-> Absent, thought |-> FALSE, functionCalls |-> <<>>,
             finishReason |-> "null"]

FunctionCall(id, name, args) == [id |-> id, name |-> name, args |-> args]

(* ------------------- OpenAI-compatible wire format -------------------- *)

\* one element of delta.tool_calls
ToolCallDelta(index, id, name, arguments) ==
  [index |-> index, id |-> id, name |-> name, arguments |-> arguments,
   hasFunction |-> TRUE]

\* the JSON object of one `data: ` line
Chunk(content, toolCalls) ==
  [hasChoices |-> TRUE, content |-> content, tool_calls |-> toolCalls]

NoChoicesChunk == [hasChoices |-> FALSE, content |-> Absent, tool_calls |-> <<>>]

\* A received line.  prefix: the line starts with 'data: '; done: its data is
\* the literal [DONE]; json: its data is JSON text, of the object obj.
Line(prefix, done, json, obj) ==
  [prefix |-> prefix, done |-> done, json |-> json, obj |-> obj]

\* Map.has / Map.get / Map.set on a Map kept as the sequence of its values in
\* insertion order; an entry's key is its key field.
MapHas(m, key) == \E i \in 1..Len(m) : m[i].key = key
MapIndex(m, key) == CHOOSE i \in 1..Len(m) : m[i].key = key
MapSet(m, key, v) ==
  IF MapHas(m, key) THEN [m EXCEPT ![MapIndex(m, key)] = v]
  ELSE Append(m, v)

\* Map<number, string>: a function over the positional indices
Indices == {0, 1}
EmptyIndexMap == [i \in Indices |-> Undefined]

\* part_002:300-303: if this chunk has an id, store the mapping
IndexToIdAfter(idmap, toolCall) ==
  IF Truthy(toolCall.id) THEN [idmap EXCEPT ![toolCall.index] = toolCall.id]
  ELSE idmap

\* a key taken from the chunk alone, without the index-to-id mapping
CallIdOfChunk(idmap, toolCall) ==
  IF Truthy(toolCall.id) THEN toolCall.id
  ELSE "call_" \o ToString(toolCall.index)

\* part_002:306
CallIdOf(idmap, toolCall) ==
  IF Truthy(idmap[toolCall.index]) THEN idmap[toolCall.index]
  ELSE IF Truthy(toolCall.id) THEN toolCall.id
  ELSE "call_" \o ToString(toolCall.index)

\* part_002:308-314
EnsureEntry(acc, callId, toolCall) ==
  IF MapHas(acc, callId) THEN acc
  ELSE Append(acc, [key |-> callId, id |-> callId,
                    name |-> IF Truthy(toolCall.name) THEN toolCall.name
                             ELSE "",
                    arguments |-> <<>>])

\* part_002:316-322, with the fragment replacing what was accumulated
AccumulatedEntryOverwrite(e, toolCall) ==
  [key |-> e.key, id |-> e.id,
   name |-> IF Truthy(toolCall.name) THEN toolCall.name ELSE e.name,
   arguments |-> IF TextTruthy(toolCall.arguments)
                 THEN toolCall.arguments ELSE e.arguments]

\* part_002:316-322
AccumulatedEntry(e, toolCall) ==
  [key |-> e.key, id |-> e.id,
   name |-> IF Truthy(toolCall.name) THEN toolCall.name ELSE e.name,
   arguments |-> IF TextTruthy(toolCall.arguments)
                 THEN e.arguments \o toolCall.arguments ELSE e.arguments]

MapUpdate(acc, callId, toolCall) ==
  [acc EXCEPT ![MapIndex(acc, callId)] = AccumulatedEntry(@, toolCall)]

AccumulateUnder(acc, callId, toolCall) ==
  MapUpdate(EnsureEntry(acc, callId, toolCall), callId, toolCall)

AccumulateWith(st, idmap, toolCall) ==
  [acc |-> AccumulateUnder(st.acc, CallIdOf(idmap, toolCall), toolCall),
   idmap |-> idmap, calls |-> st.calls]

\* a merge that also emits the call with the chunk that carries it
AccumulateAndEmit(st, toolCall) ==
  [acc |-> AccumulateWith(st, IndexToIdAfter(st.idmap, toolCall), toolCall).acc,
   idmap |-> IndexToIdAfter(st.idmap, toolCall),
   calls |-> Append(st.calls,
                    FunctionCall(toolCall.id, toolCall.name, EmptyObj))]

\* part_002:296-325, one streamed tool call merged into the accumulator
AccumulateToolCall(st, toolCall) ==
  AccumulateWith(st, IndexToIdAfter(st.idmap, toolCall), toolCall)

\* part_002:329-331
DirectArgs(arguments) ==
  IF arguments = Absent THEN EmptyObj ELSE ArgsOrEmpty(JSONParse(arguments))

\* part_002:327-346, a tool call converted on the spot (no accumulator)
DirectToolCall(st, toolCall) ==
  [acc |-> st.acc, idmap |-> st.idmap,
   calls |-> Append(st.calls,
               FunctionCall(toolCall.id, toolCall.name,
                            DirectArgs(toolCall.arguments)))]

ToolCallStep(st, tc, accumulate) ==
  IF ~tc.hasFunction THEN st
  ELSE IF accumulate THEN AccumulateToolCall(st, tc)
  ELSE DirectToolCall(st, tc)

\* part_002:292-350, the loop over message.tool_calls
RECURSIVE ToolCallLoop(_, _, _)
ToolCallLoop(st, toolCalls, accumulate) ==
  IF toolCalls = <<>> THEN st
  ELSE ToolCallLoop(ToolCallStep(st, Head(toolCalls), accumulate),
                    Tail(toolCalls), accumulate)

\* part_002:352-380
Converted(text, st, isStream) ==
  [threw |-> FALSE, acc |-> st.acc, idmap |-> st.idmap,
   resp |-> IF isStream /\ ~TextTruthy(text) /\ st.calls = <<>> THEN NullUnit
            ELSE Unit(text, st.calls, "STOP")]

\* convertFromOpenAIFormat(data, isStream, toolCallAccumulator, indexToIdMap).
\* accumulate: the two maps were passed.  threw: 'No choices in response'.
convertFromOpenAIFormat(data, isStream, accumulate, acc, idmap) ==
  IF ~data.hasChoices
  THEN [threw |-> TRUE, acc |-> acc, idmap |-> idmap, resp |-> NullUnit]
  ELSE Converted(IF TextTruthy(data.content) THEN data.content ELSE <<>>,
                 ToolCallLoop([acc |-> acc, idmap |-> idmap, calls |-> <<>>],
                              data.tool_calls, isStream /\ accumulate),
                 isStream)

\* a flush that gives every call the empty argument object
AccumulatedArgsEmpty(arguments) == EmptyObj

\* part_002:390
AccumulatedArgs(arguments) ==
  IF ~TextTruthy(arguments) THEN EmptyObj
  ELSE ArgsOrEmpty(JSONParse(arguments))

\* part_002:386-405
RECURSIVE AccumulatedCalls(_)
AccumulatedCalls(toolCalls) ==
  IF toolCalls = <<>> THEN <<>>
  ELSE <<FunctionCall(Head(toolCalls).id, Head(toolCalls).name,
                      AccumulatedArgs(Head(toolCalls).arguments))>>
         \o AccumulatedCalls(Tail(toolCalls))

FlushUnit(calls) ==
  IF calls = <<>> THEN NullUnit ELSE Unit(<<>>, calls, "tool_calls")

\* part_002:383-435
convertAccumulatedToolCallsToGemini(toolCalls) ==
  FlushUnit(AccumulatedCalls(toolCalls))

\* the generator after one line: its maps, the unit it yields (NullUnit:
\* none) and whether it has returned
Stepped(acc, idmap, out, ended) ==
  [acc |-> acc, idmap |-> idmap, out |-> out, ended |-> ended]

\* a line handler that gives up on the stream at a line it cannot use
SkippedEndsStream(ad) == Stepped(ad.acc, ad.idmap, NullUnit, TRUE)

\* part_002:139 and 159-162: a line without the prefix, or whose JSON or
\* conversion raises, leaves no trace
Skipped(ad) == Stepped(ad.acc, ad.idmap, NullUnit, FALSE)

AfterConvert(r) ==
  Stepped(r.acc, r.idmap, IF r.threw THEN NullUnit ELSE r.resp, FALSE)

\* part_002:138-164, one line of the OpenAI-compatible stream
OpenAILine(ad, line) ==
  IF ~line.prefix THEN Skipped(ad)
  ELSE IF line.done THEN
    Stepped(ad.acc, ad.idmap,
            IF Len(ad.acc) > 0 THEN convertAccumulatedToolCallsToGemini(ad.acc)
            ELSE NullUnit,
            TRUE)
  ELSE IF ~line.json THEN Skipped(ad)
  ELSE AfterConvert(
         convertFromOpenAIFormat(line.obj, TRUE, TRUE, ad.acc, ad.idmap))

\* part_001:134-153, one line of the Azure stream
AzureLine(ad, line) ==
  IF ~line.prefix THEN Skipped(ad)
  ELSE IF line.done THEN Stepped(ad.acc, ad.idmap, NullUnit, TRUE)
  ELSE IF ~line.json THEN Skipped(ad)
  ELSE AfterConvert(
         convertFromOpenAIFormat(line.obj, TRUE, FALSE, ad.acc, ad.idmap))

(* ------------------------ Anthropic wire format ----------------------- *)

\* the JSON object of one `data: ` line of the Messages stream
AnthropicEvent(type, index, sub, text, json, id, name) ==
  [type |-> type, index |-> index, sub |-> sub, text |-> text, partial_json |-> json, id |-> id, name |-> name]

IndexKey(blockIndex) == "index_" \o ToString(blockIndex)

\* anthropicContentGenerator.ts:484-507
createStreamingTextResponse(text) == Unit(text, <<>>, "STOP")

\* anthropicContentGenerator.ts:447-456, with the fragment replacing what
\* was accumulated
AppendPartialJsonOverwrite(acc, key, partialJson) ==
  IF MapHas(acc, key)
  THEN [acc EXCEPT ![MapIndex(acc, key)].input = partialJson]
  ELSE acc

\* anthropicContentGenerator.ts:447-456, with an accumulator made for a key
\* that has none
AppendPartialJsonCreates(acc, key, partialJson) ==
  IF MapHas(acc, key)
  THEN [acc EXCEPT ![MapIndex(acc, key)].input = @ \o partialJson]
  ELSE Append(acc, [key |-> key, id |-> Undefined, name |-> Undefined,
                    input |-> partialJson])

\* anthropicContentGenerator.ts:447-456
AppendPartialJson(acc, key, partialJson) ==
  IF MapHas(acc, key)
  THEN [acc EXCEPT ![MapIndex(acc, key)].input = @ \o partialJson]
  ELSE acc

\* anthropicContentGenerator.ts:434-482; sub is delta.type of a
\* content_block_delta and content_block.type of a content_block_start
handleAnthropicStreamingEvent(data, acc) ==
  IF data.type = "content_block_delta" /\ data.sub = "text_delta" THEN
    [acc |-> acc,
     resp |-> createStreamingTextResponse(
                IF TextTruthy(data.text) THEN data.text ELSE <<>>)]
  ELSE IF data.type = "content_block_delta" /\ data.sub = "input_json_delta" THEN
    [acc |-> AppendPartialJson(acc, IndexKey(data.index),
               IF TextTruthy(data.partial_json) THEN data.partial_json
               ELSE <<>>),
     resp |-> NullUnit]
  ELSE IF data.type = "content_block_start" /\ data.sub = "tool_use" THEN
    [acc |-> MapSet(acc, IndexKey(data.index),
                    [key |-> IndexKey(data.index), id |-> data.id,
                     name |-> data.name, input |-> <<>>]),
     resp |-> NullUnit]
  ELSE [acc |-> acc, resp |-> NullUnit]

\* anthropicContentGenerator.ts:516
AccumulatedInput(input) ==
  IF ~TextTruthy(input) THEN EmptyObj ELSE ArgsOrEmpty(JSONParse(input))

\* anthropicContentGenerator.ts:512-531
RECURSIVE AccumulatedAnthropicCalls(_)
AccumulatedAnthropicCalls(toolCalls) ==
  IF toolCalls = <<>> THEN <<>>
  ELSE <<FunctionCall(Head(toolCalls).id, Head(toolCalls).name,
                      AccumulatedInput(Head(toolCalls).input))>>
         \o AccumulatedAnthropicCalls(Tail(toolCalls))

\* anthropicContentGenerator.ts:509-559
convertAccumulatedAnthropicToolCallsToGemini(toolCalls) ==
  FlushUnit(AccumulatedAnthropicCalls(toolCalls))

AfterEvent(r, idmap) == Stepped(r.acc, idmap, r.resp, FALSE)

\* anthropicContentGenerator.ts:155-174, one line of the Anthropic stream
\* (a line starting with 'event: ' has no 'data: ' prefix)
AnthropicLine(ad, line) ==
  IF ~line.prefix \/ ~line.json THEN Skipped(ad)
  ELSE AfterEvent(handleAnthropicStreamingEvent(line.obj, ad.acc), ad.idmap)

\* anthropicContentGenerator.ts:176-184, after the byte stream is exhausted
AnthropicFlush(ad) ==
  IF Len(ad.acc) > 0
  THEN convertAccumulatedAnthropicToolCallsToGemini(ad.acc) ELSE NullUnit

(* ----------------------------- Turn engine ---------------------------- *)

ContentEvent(text) == [type |-> "content", text |-> text]
ThoughtEvent(thought) == [type |-> "thought", thought |-> thought]
ToolCallRequestEvent(req) == [type |-> "tool_call_request", req |-> req]
UserCancelledEvent == [type |-> "user_cancelled"]
ErrorEvent(err) == [type |-> "error", error |-> err]

\* smallest i >= from with s[i] = tok, 0 if there is none
RECURSIVE FirstIdx(_, _, _)
FirstIdx(s, tok, from) ==
  IF from > Len(s) THEN 0
  ELSE IF s[from] = tok THEN from
  ELSE FirstIdx(s, tok, from + 1)

RECURSIVE TrimStart(_)
TrimStart(s) == IF s # <<>> /\ Head(s) = " " THEN TrimStart(Tail(s)) ELSE s

RECURSIVE TrimEnd(_)
TrimEnd(s) ==
  IF s # <<>> /\ s[Len(s)] = " " THEN TrimEnd(Take(s, Len(s) - 1)) ELSE s

Trim(s) == TrimEnd(TrimStart(s))

\* turn.ts:176-184 once **...** was looked for: it spans i..j, j = 0 if
\* there is no match
SummaryAt(rawText, i, j) ==
  IF j = 0 THEN [subject |-> <<>>, description |-> Trim(rawText)]
  ELSE [subject |-> Trim(SubSeq(rawText, i + 1, j - 1)),
        description |-> Trim(Take(rawText, i - 1) \o Drop(rawText, j))]

ClosingAt(rawText, i) ==
  SummaryAt(rawText, i, IF i = 0 THEN 0 ELSE FirstIdx(rawText, "**", i + 1))

\* turn.ts:175-184, the first **...** of the raw text is the subject
ThoughtSummary(text) ==
  IF text = Absent THEN ClosingAt(<<>>, 0)
  ELSE ClosingAt(text, FirstIdx(text, "**", 1))

\* `${fnCall.name}-${Date.now()}-${Math.random().toString(16).slice(2)}`:
\* n stands for the pair of the clock and the random draw of this call
GeneratedId(name, n) == TemplateStr(name) \o "-" \o ToString(n)

ArgsTruthy(v) == v.t # "undefined" /\ ~(v.t = "num" /\ v.n = 0)

\* turn.ts:241-261 without the push; n numbers the ids generated so far
ToolCallRequestInfo(fnCall, n) ==
  [callId |-> IF fnCall.id = Undefined THEN GeneratedId(fnCall.name, n)
              ELSE fnCall.id,
   name |-> IF Truthy(fnCall.name) THEN fnCall.name ELSE "undefined_tool_name",
   args |-> IF ArgsTruthy(fnCall.args) THEN fnCall.args ELSE EmptyObj,
   isClientInitiated |-> FALSE]

\* turn.ts:199-205, the requests of one unit's function calls, in order
RECURSIVE handlePendingFunctionCalls(_, _)
handlePendingFunctionCalls(fnCalls, n) ==
  IF fnCalls = <<>> THEN <<>>
  ELSE <<ToolCallRequestInfo(Head(fnCalls), n)>>
         \o handlePendingFunctionCalls(Tail(fnCalls),
              IF Head(fnCalls).id = Undefined THEN n + 1 ELSE n)

NumGenerated(fnCalls) ==
  Cardinality({i \in 1..Len(fnCalls) : fnCalls[i].id = Undefined})

\* getResponseText(resp): the text of the unit's text parts
getResponseText(resp) == resp.text

\* a loop body that handles the function calls of a unit before its text
UnitEventsCallsFirst(text, reqs) ==
  [events |-> [i \in 1..Len(reqs) |-> ToolCallRequestEvent(reqs[i])]
                \o (IF TextTruthy(text) THEN <<ContentEvent(text)>> ELSE <<>>),
   reqs |-> reqs]

\* a loop body that yields a Content event for every text, the empty one
\* included
UnitEventsAnyText(text, reqs) ==
  [events |-> (IF text # Absent THEN <<ContentEvent(text)>> ELSE <<>>)
                \o [i \in 1..Len(reqs) |-> ToolCallRequestEvent(reqs[i])],
   reqs |-> reqs]

\* turn.ts:193-205
UnitEvents(text, reqs) ==
  [events |-> (IF TextTruthy(text) THEN <<ContentEvent(text)>> ELSE <<>>)
                \o [i \in 1..Len(reqs) |-> ToolCallRequestEvent(reqs[i])],
   reqs |-> reqs]

\* a loop body whose thought branch falls through to the rest of the body
ProcessUnitNoContinue(resp, n) ==
  IF resp.thought
  THEN [events |-> <<ThoughtEvent(ThoughtSummary(resp.text))>>
                     \o UnitEvents(getResponseText(resp),
                          handlePendingFunctionCalls(resp.functionCalls, n)).events,
        reqs |-> handlePendingFunctionCalls(resp.functionCalls, n)]
  ELSE UnitEvents(getResponseText(resp),
                  handlePendingFunctionCalls(resp.functionCalls, n))

\* turn.ts:169-205, the events of one unit that is processed
ProcessUnit(resp, n) ==
  IF resp.thought
  THEN [events |-> <<ThoughtEvent(ThoughtSummary(resp.text))>>, reqs |-> <<>>]
  ELSE UnitEvents(getResponseText(resp),
                  handlePendingFunctionCalls(resp.functionCalls, n))

(* -------------------------- tool call executor ------------------------ *)

\* an Error object with its message, and the undefined error field
ErrorObj(message) == [defined |-> TRUE, message |-> message]
NoError == [defined |-> FALSE, message |-> Undefined]

\* what a tool's execute may throw: an Error, a string, a number, or an
\* object that has no conversion to a primitive (such as
\* Object.create(null))
ThrownValue(k, s, n) == [k |-> k, s |-> s, n |-> n]
Thrown ==
  { ThrownValue("Error", "boom", 0), ThrownValue("string", "oops", 0),
    ThrownValue("number", "", 42), ThrownValue("bare", "", 0) }

\* String(e) is defined for e, and its value
CanString(e) == e.k # "bare"
StringOf(e) ==
  IF e.k = "string" THEN e.s
  ELSE IF e.k = "number" THEN ToString(e.n)
  ELSE "Error: " \o e.s

\* what the resolved tool does when executed: it returns a result, whose
\* conversion to the function-response shape may raise, or it throws
Behaviour(kind, thrown, convRaises) ==
  [kind |-> kind, thrown |-> thrown, convRaises |-> convRaises]
Behaviours ==
  { Behaviour("returns", ThrownValue("none", "", 0), b) : b \in BOOLEAN }
    \cup { Behaviour("throws", e, FALSE) : e \in Thrown }

ToolRequest(callId, name, args) ==
  [callId |-> callId, name |-> name, args |-> args, isClientInitiated |-> FALSE]

\* toolRegistry.getTool(name) finds a tool
getTool(registry, name) == name \in registry

\* the record handed to logToolCall
ToolCallLog(req, success, error) ==
  [function_name |-> req.name, function_args |-> req.args,
   success |-> success, error |-> error]

\* convertToFunctionResponse(name, callId, llmContent)
convertToFunctionResponse(name, callId, llmContent) ==
  << [functionResponse |->
        [id |-> callId, name |-> name, response |-> [output |-> llmContent]]] >>

NoResponse ==
  [callId |-> Undefined, responseParts |-> <<>>, resultDisplay |-> Undefined,
   error |-> NoError]

\* what one invocation of executeToolCall did: whether it raised, what it
\* returned, the records it logged, how often it called tool.execute
Invocation(raised, response, logs, executed) ==
  [raised |-> raised, response |-> response, logs |-> logs,
   executed |-> executed]

\* a failure response that leaves the error field undefined
ErrorResponseWithoutError(req, error) ==
  [callId |-> req.callId,
   responseParts |-> << [functionResponse |->
                           [id |-> req.callId, name |-> req.name,
                            response |-> [error |-> error.message]]] >>,
   resultDisplay |-> error.message,
   error |-> NoError]

\* part_004:45-58 and 104-117
ErrorResponse(req, error) ==
  [callId |-> req.callId,
   responseParts |-> << [functionResponse |->
                           [id |-> req.callId, name |-> req.name,
                            response |-> [error |-> error.message]]] >>,
   resultDisplay |-> error.message,
   error |-> error]

\* part_004:31-33
NotFoundError(name) ==
  ErrorObj("Tool \"" \o name \o "\" not found in registry.")

\* part_004:30-59
NotFound(req) ==
  Invocation(FALSE, ErrorResponse(req, NotFoundError(req.name)),
             <<ToolCallLog(req, FALSE, NotFoundError(req.name).message)>>, 0)

\* part_004:94-117, with the Error the catch block works with
Failed(req, error, logged) ==
  Invocation(FALSE, ErrorResponse(req, error),
             Append(logged, ToolCallLog(req, FALSE, error.message)), 1)

\* part_004:92-118: e is caught; logged are the records written before
Caught(req, e, logged) ==
  IF e.k = "Error" THEN Failed(req, ErrorObj(e.s), logged)
  ELSE IF CanString(e) THEN Failed(req, ErrorObj(StringOf(e)), logged)
  ELSE Invocation(TRUE, NoResponse, logged, 1)

\* part_004:61-91, after tool.execute has returned
Returned(req, beh, logged) ==
  IF beh.convRaises
  THEN Caught(req, ThrownValue("Error", "conversion", 0), logged)
  ELSE Invocation(FALSE,
                  [callId |-> req.callId,
                   responseParts |->
                     convertToFunctionResponse(req.name, req.callId, "out"),
                   resultDisplay |-> "display",
                   error |-> NoError],
                  logged, 1)

\* part_004:21-119
executeToolCall(req, registry, beh) ==
  IF ~getTool(registry, req.name) THEN NotFound(req)
  ELSE IF beh.kind = "returns"
  THEN Returned(req, beh, <<ToolCallLog(req, TRUE, Undefined)>>)
  ELSE Caught(req, beh.thrown, <<>>)

(* --------------------------- adapter requests -------------------------- *)

\* Parts of a Content: text, functionResponse, or another kind (inlineData)
TextPart(text) == [kind |-> "text", text |-> text, name |-> Undefined]
ResponsePart(name, response) ==
  [kind |-> "functionResponse", text |-> response, name |-> name]
OtherPart == [kind |-> "inlineData", text |-> Undefined, name |-> Undefined]

Content(role, parts) == [role |-> role, parts |-> parts]

\* GenerateContentParameters: contents and, in json, whether config asks for
\* application/json with a responseSchema
Request(contents, json) == [contents |-> contents, json |-> json]

\* JSON.stringify(part), as one opaque text
Stringified(part) == "{" \o part.kind \o "}"

\* the instruction text built at part_002:227 and
\* anthropicContentGenerator.ts:275
JsonInstruction ==
  "You must respond with valid JSON only. No additional text, explanations, or formatting. The response must conform to this schema: {}"

\* Array.prototype.join
RECURSIVE Join(_, _)
Join(texts, sep) ==
  IF texts = <<>> THEN ""
  ELSE IF Len(texts) = 1 THEN texts[1]
  ELSE texts[1] \o sep \o Join(Tail(texts), sep)

\* An outbound message; from is the position of the Content it was made
\* from, 0 for a message the adapter adds
Message(role, content, from) ==
  [role |-> role, content |-> content, from |-> from]

\* part_002:216-222
OpenAIPartText(part) ==
  IF part.kind = "text" THEN part.text ELSE Stringified(part)

\* part_002:214-223
OpenAIMessages(contents) ==
  [i \in 1..Len(contents) |->
     Message(IF contents[i].role = "model" THEN "assistant"
             ELSE contents[i].role,
             Join([j \in 1..Len(contents[i].parts) |->
                     OpenAIPartText(contents[i].parts[j])], "\n"),
             i)]

\* part_002:212-270, the messages of the request body
convertToOpenAIFormat(request) ==
  IF request.json
  THEN <<Message("system", JsonInstruction, 0)>>
         \o OpenAIMessages(request.contents)
  ELSE OpenAIMessages(request.contents)

\* the code fence of the summary; stands for the three backquotes of the
\* source, a character that a string of this language cannot hold
Fence == "~~~"

\* anthropicContentGenerator.ts:232-258, the summary that replaces the parts
\* text: the non-empty text parts; results: the functionResponse parts
ToolSummary(text, results) ==
  (IF text = <<>> THEN ""
   ELSE Join([i \in 1..Len(text) |-> text[i].text], "\n") \o "\n\n")
  \o "## Tool Execution Completed\n\n"
  \o "The following tools have been executed successfully:\n\n"
  \o Join([i \in 1..Len(results) |->
             "### " \o results[i].name \o "\n" \o Fence \o "\n"
               \o results[i].text \o "\n" \o Fence \o "\n\n"], "")
  \o "**Task completed successfully.** Please provide a summary of these results and any insights."

IsResponsePart(p) == p.kind = "functionResponse"
IsTruthyText(p) == p.kind = "text" /\ p.text # ""

\* anthropicContentGenerator.ts:215-267
convertToolResultsToTextForAnthropic(contents) ==
  [i \in 1..Len(contents) |->
     IF contents[i].role = "user"
        /\ SelectSeq(contents[i].parts, IsResponsePart) # <<>>
     THEN Content(contents[i].role,
            <<TextPart(ToolSummary(SelectSeq(contents[i].parts, IsTruthyText),
                                   SelectSeq(contents[i].parts,
                                             IsResponsePart)))>>)
     ELSE contents[i]]

\* anthropicContentGenerator.ts:273-290
WithJsonInstruction(contents, json) ==
  [i \in 1..Len(contents) |->
     IF json /\ i = 1 /\ contents[i].role = "user"
     THEN Content(contents[i].role,
                  <<TextPart(JsonInstruction)>> \o contents[i].parts)
     ELSE contents[i]]

\* anthropicContentGenerator.ts:296-321, the block made from one part; a
\* text part without text makes none
AnthropicBlocks(part) ==
  IF part.kind = "text"
  THEN (IF part.text # "" THEN <<[type |-> "text", text |-> part.text]>>
        ELSE <<>>)
  ELSE IF part.kind = "functionResponse"
  THEN <<[type |-> "text",
          text |-> "Tool result from " \o part.name \o ": " \o part.text]>>
  ELSE <<[type |-> "text", text |-> Stringified(part)]>>

RECURSIVE AnthropicContent(_)
AnthropicContent(parts) ==
  IF parts = <<>> THEN <<>>
  ELSE AnthropicBlocks(Head(parts)) \o AnthropicContent(Tail(parts))

\* anthropicContentGenerator.ts:292-345; a Content that gives no block gives
\* no message
AnthropicMessages(contents) ==
  SelectSeq([i \in 1..Len(contents) |->
               Message(IF contents[i].role = "model" THEN "assistant"
                       ELSE "user",
                       AnthropicContent(contents[i].parts), i)],
            LAMBDA m : m.content # <<>>)

\* anthropicContentGenerator.ts:205-213 and 270-345
convertToAnthropicFormat(request) ==
  AnthropicMessages(
    WithJsonInstruction(convertToolResultsToTextForAnthropic(request.contents),
                        request.json))

(* ---------------------------- adapter calls ---------------------------- *)

\* ContentGeneratorConfig of the adapter instance
BaseUrl == "https://host"
ApiKey == "key"
ModelName == "m"
ApiVersion == "v"

\* The headers a request authenticates with; Undefined: header not sent
Headers(authorization, apiKey, xApiKey) ==
  [Authorization |-> authorization, api_key |-> apiKey, x_api_key |-> xApiKey]

\* one call of fetch
HttpRequest(url, headers, messages, stream) ==
  [url |-> url, headers |-> headers, messages |-> messages, stream |-> stream]

\* part_002:59-71 and 94-105
OpenAIFetch(request, path, stream) ==
  HttpRequest(BaseUrl \o path, Headers("Bearer " \o ApiKey, Undefined, Undefined),
              convertToOpenAIFormat(request), stream)

\* part_001:95-106 and 166-175
AzureFetch(request) ==
  HttpRequest(BaseUrl \o "/openai/deployments/" \o ModelName
                \o "/chat/completions?api-version=" \o ApiVersion,
              Headers(Undefined, ApiKey, Undefined),
              convertToOpenAIFormat(request), TRUE)

\* anthropicContentGenerator.ts:59-72 and 107-118
AnthropicFetch(request, stream) ==
  HttpRequest(BaseUrl \o "/v1/messages", Headers(Undefined, Undefined, ApiKey),
              convertToAnthropicFormat(request), stream)

\* What the backend answers: ok, status and statusText, the body as text,
\* whether that text is JSON, and for an ok answer the object it holds
HttpAnswer(ok, status, statusText, body, bodyIsJson, data) ==
  [ok |-> ok, status |-> status, statusText |-> statusText, body |-> body,
   bodyIsJson |-> bodyIsJson, data |-> data]

\* An Error: its class and the pieces its message is put together from
Raised(name, pieces) == [name |-> name, pieces |-> pieces]
NoRaise == Raised("none", <<>>)

\* part_002:73-75 and 107-109
OpenAIStatusError(answer) ==
  Raised("Error", <<"HTTP ", ToString(answer.status), ": ", answer.statusText>>)

\* part_001:108-111
AzureStatusError(answer) ==
  Raised("Error", <<"Azure API Streaming Error: ", ToString(answer.status),
                    " - ", answer.body>>)

\* anthropicContentGenerator.ts:74-83 and 120-129: response.json() reads the
\* body; when the text is not JSON it raises and response.text() is called on
\* the body that has been read already, which raises a TypeError
AnthropicStatusError(answer) ==
  IF answer.bodyIsJson
  THEN Raised("Error", <<"HTTP ", ToString(answer.status), ": ",
                         answer.statusText, ". Details: ", answer.body>>)
  ELSE Raised("TypeError", <<"Body is unusable">>)

\* content blocks of a non-streaming Anthropic answer
TextBlock(text) ==
  [type |-> "text", text |-> text, id |-> Undefined, name |-> Undefined,
   input |-> UndefinedVal]
ToolUseBlock(id, name, input) ==
  [type |-> "tool_use", text |-> Absent, id |-> id, name |-> name,
   input |-> input]

\* a conversion that keeps the text of the first content block only
BlocksTextFirst(blocks) ==
  IF blocks # <<>> /\ Head(blocks).type = "text"
     /\ TextTruthy(Head(blocks).text)
  THEN Head(blocks).text ELSE <<>>

\* anthropicContentGenerator.ts:394-397, the text of the text blocks
RECURSIVE BlocksText(_)
BlocksText(blocks) ==
  IF blocks = <<>> THEN <<>>
  ELSE (IF Head(blocks).type = "text" /\ TextTruthy(Head(blocks).text)
        THEN Head(blocks).text ELSE <<>>) \o BlocksText(Tail(blocks))

\* anthropicContentGenerator.ts:398-404
RECURSIVE BlocksCalls(_)
BlocksCalls(blocks) ==
  IF blocks = <<>> THEN <<>>
  ELSE (IF Head(blocks).type = "tool_use"
        THEN <<FunctionCall(Head(blocks).id, Head(blocks).name,
                            IF ArgsTruthy(Head(blocks).input)
                            THEN Head(blocks).input ELSE EmptyObj)>>
        ELSE <<>>) \o BlocksCalls(Tail(blocks))

\* anthropicContentGenerator.ts:389-432, a non-streaming answer
convertFromAnthropicFormat(data) ==
  Unit(BlocksText(data.content), BlocksCalls(data.content), "STOP")

\* What one call of an adapter method did: the requests it sent, the error
\* it raised (NoRaise: it returned), the unit it returned, whether it
\* returned an embedding
ApiCall(op, provider, request, answer, http, raised, resp, embedding) ==
  [op |-> op, provider |-> provider, request |-> request, answer |-> answer,
   http |-> http, raised |-> raised, resp |-> resp, embedding |-> embedding]

\* part_002:77-82
OpenAIResult(op, provider, request, answer, http, conv) ==
  ApiCall(op, provider, request, answer, http,
          IF conv.threw THEN Raised("Error", <<"No choices in response">>)
          ELSE NoRaise,
          conv.resp, FALSE)

\* part_002:56-83, generateContent of the OpenAI-compatible adapter, which
\* the Azure adapter inherits
OpenAIGenerateContent(provider, request, answer) ==
  IF ~answer.ok
  THEN ApiCall("generateContent", provider, request, answer,
               <<OpenAIFetch(request, "/chat/completions", FALSE)>>,
               OpenAIStatusError(answer), NullUnit, FALSE)
  ELSE OpenAIResult("generateContent", provider, request, answer,
                    <<OpenAIFetch(request, "/chat/completions", FALSE)>>,
                    convertFromOpenAIFormat(answer.data, FALSE, FALSE, <<>>,
                                            EmptyIndexMap))

\* anthropicContentGenerator.ts:56-92
AnthropicGenerateContent(request, answer) ==
  ApiCall("generateContent", "anthropic", request, answer,
          <<AnthropicFetch(request, FALSE)>>,
          IF answer.ok THEN NoRaise ELSE AnthropicStatusError(answer),
          IF answer.ok THEN convertFromAnthropicFormat(answer.data)
          ELSE NullUnit,
          FALSE)

generateContent(provider, request, answer) ==
  IF provider = "anthropic" THEN AnthropicGenerateContent(request, answer)
  ELSE OpenAIGenerateContent(provider, request, answer)

\* part_002:94-109, part_001:92-111, anthropicContentGenerator.ts:102-129:
\* generateContentStream up to the check of the answer's status
generateContentStream(provider, request, answer) ==
  ApiCall("generateContentStream", provider, request, answer,
          <<IF provider = "anthropic" THEN AnthropicFetch(request, TRUE)
            ELSE IF provider = "azure" THEN AzureFetch(request)
            ELSE OpenAIFetch(request, "/chat/completions", TRUE)>>,
          IF answer.ok THEN NoRaise
          ELSE IF provider = "anthropic" THEN AnthropicStatusError(answer)
          ELSE IF provider = "azure" THEN AzureStatusError(answer)
          ELSE OpenAIStatusError(answer),
          NullUnit, FALSE)

\* an embedContent that answers with an empty vector instead of failing
AnthropicEmbedEmptyVector(request, answer) ==
  ApiCall("embedContent", "anthropic", request, answer, <<>>, NoRaise,
          NullUnit, TRUE)

\* anthropicContentGenerator.ts:201-203
AnthropicEmbedContent(request, answer) ==
  ApiCall("embedContent", "anthropic", request, answer, <<>>,
          Raised("Error", <<"Anthropic does not support embeddings">>),
          NullUnit, FALSE)

\* part_002:182-210, which the Azure adapter inherits
OpenAIEmbedContent(provider, request, answer) ==
  ApiCall("embedContent", provider, request, answer,
          <<HttpRequest(BaseUrl \o "/embeddings",
                        Headers("Bearer " \o ApiKey, Undefined, Undefined),
                        <<>>, FALSE)>>,
          IF answer.ok THEN NoRaise ELSE OpenAIStatusError(answer),
          NullUnit, answer.ok)

embedContent(provider, request, answer) ==
  IF provider = "anthropic" THEN AnthropicEmbedContent(request, answer)
  ELSE OpenAIEmbedContent(provider, request, answer)

\* the events of an Anthropic stream handled in turn
RECURSIVE AnthropicEvents(_, _)
AnthropicEvents(events, acc) ==
  IF events = <<>> THEN acc
  ELSE AnthropicEvents(Tail(events),
                       handleAnthropicStreamingEvent(Head(events), acc).acc)

\* The unit flushed at the end of a stream that carried the tool calls of
\* data: in one chunk each for the OpenAI-compatible adapter, as a
\* content_block_start and one input_json_delta each for the Anthropic one
flushedToolCalls(provider, answer) ==
  ApiCall("flush", provider, Request(<<>>, FALSE), answer, <<>>, NoRaise,
          IF provider = "anthropic"
          THEN convertAccumulatedAnthropicToolCallsToGemini(
                 AnthropicEvents(
                   [i \in 1..(2 * Len(answer.data.tool_calls)) |->
                      IF i % 2 = 1
                      THEN AnthropicEvent("content_block_start",
                             answer.data.tool_calls[(i + 1) \div 2].index,
                             "tool_use", Absent, Absent,
                             answer.data.tool_calls[(i + 1) \div 2].id,
                             answer.data.tool_calls[(i + 1) \div 2].name)
                      ELSE AnthropicEvent("content_block_delta",
                             answer.data.tool_calls[i \div 2].index,
                             "input_json_delta", Absent,
                             answer.data.tool_calls[i \div 2].arguments,
                             Undefined, Undefined)],
                   <<>>))
          ELSE convertAccumulatedToolCallsToGemini(
                 convertFromOpenAIFormat(answer.data, TRUE, TRUE, <<>>,
                                         EmptyIndexMap).acc),
          FALSE)

(* --------------------------- adapter registry -------------------------- *)

BuiltIn == {"openai-compatible", "local-llm", "anthropic", "azure"}

\* index.ts:36-38
registerContentGenerator(registry, authType, generatorClass) ==
  MapSet(registry, authType, [key |-> authType, ctor |-> generatorClass])

\* the outcome of createCustomContentGenerator: the class of the instance it
\* returns, or the error it raises
Created(class, raised) == [class |-> class, raised |-> raised]

\* a lookup that takes the constructor registered first, whatever its key
RegisteredClassFirst(registry, authType) ==
  IF registry # <<>> THEN Created(registry[1].ctor, NoRaise)
  ELSE Created(Undefined,
               Raised("Error", <<"No content generator available for auth type: ",
                                 authType>>))

\* index.ts:24-30
RegisteredClass(registry, authType) ==
  IF MapHas(registry, authType)
  THEN Created(registry[MapIndex(registry, authType)].ctor, NoRaise)
  ELSE Created(Undefined,
               Raised("Error", <<"No content generator available for auth type: ",
                                 authType>>))

\* index.ts:12-31 with the registry consulted before the built-in selectors
createCustomContentGeneratorRegistryFirst(registry, authType) ==
  IF MapHas(registry, authType) THEN RegisteredClass(registry, authType)
  ELSE IF authType \in {"openai-compatible", "local-llm"}
  THEN Created("OpenAICompatibleContentGenerator", NoRaise)
  ELSE IF authType = "anthropic"
  THEN Created("AnthropicContentGenerator", NoRaise)
  ELSE IF authType = "azure" THEN Created("AzureContentGenerator", NoRaise)
  ELSE RegisteredClass(registry, authType)

\* index.ts:12-31
createCustomContentGenerator(registry, authType) ==
  IF authType \in {"openai-compatible", "local-llm"}
  THEN Created("OpenAICompatibleContentGenerator", NoRaise)
  ELSE IF authType = "anthropic"
  THEN Created("AnthropicContentGenerator", NoRaise)
  ELSE IF authType = "azure" THEN Created("AzureContentGenerator", NoRaise)
  ELSE RegisteredClass(registry, authType)

(* ------------------------------- state -------------------------------- *)

VARIABLES
  provider,          \* the adapter behind the Turn's generator
  doc,               \* argument text the backend streams for its tool call
  pos,               \* characters of doc sent so far
  nLines,            \* lines (or native units) the backend has sent
  nGarbage,          \* unparseable lines among them
  weave,             \* 1: a parseable line was sent, 2: then an unparseable
                     \* one, 3: then a parseable one again
  turn,              \* number of the exchange within the program's run
  runCallIds,        \* callIds of the requests of the run's earlier Turns
  call,              \* what the backend has sent about its tool call
  stopSeen,          \* the terminator marker was sent
  ad,                \* the adapter's generator: accumulator maps and status
  units,             \* units the generator has yielded
  ref,               \* the same generator fed the parseable lines only
  aborted,           \* the caller's AbortSignal
  readAfterAbort,    \* the adapter issued a read of its stream after the signal
  pc,                \* the Turn's run
  events,            \* events the run has yielded
  pendingToolCalls,  \* Turn.pendingToolCalls
  debugResponses,    \* Turn.debugResponses
  genCount,          \* call ids generated so far in the program's run
  reports,           \* calls of reportError
  failure            \* the failure the adapter raised, "none" if none

turnVars == <<aborted, readAfterAbort, pc, events, pendingToolCalls,
              debugResponses, genCount, reports, failure>>
streamVars == <<provider, doc, pos, nLines, nGarbage, weave, turn, runCallIds,
                call, stopSeen, ad, units, ref>>

VARIABLES
  toolRegistry,      \* names of the tools the registry holds
  invocations,       \* invocations of executeToolCall so far
  lastCall,          \* the last invocation: request, tool behaviour, outcome
  telemetry          \* the records logToolCall has received, in order

execVars == <<toolRegistry, invocations, lastCall, telemetry>>

VARIABLES
  lastApi,           \* the last call of an adapter method
  globalContentGeneratorRegistry,  \* index.ts: the registered constructors
  lastRegistered,    \* for each selector, the constructor registered last
  lastCreate         \* the last createCustomContentGenerator call

apiVars == <<lastApi, globalContentGeneratorRegistry, lastRegistered,
             lastCreate>>

VARIABLES
  wire               \* what the backend has sent on a stream of two tool calls

wireVars == <<wire>>

VARIABLES
  conc,              \* two runs of one Turn: state, stream, units, maps
  heap               \* the Map objects made by the generator invocations

concVars == <<conc, heap>>

VARIABLES
  net,               \* a byte stream, how far it has been read, the generator
  blocks             \* an Anthropic stream of content blocks, its accumulators

byteVars == <<net, blocks>>
vars == <<streamVars, turnVars, execVars, apiVars, wireVars, concVars,
          byteVars>>

\* selectors and constructors of the registrations
Selectors == {"custom", "other", "azure", "local-llm"}
Classes == {"A", "B"}

NoAnswer == HttpAnswer(TRUE, 0, "", "", FALSE, NoChoicesChunk)
NoApiCall ==
  ApiCall("none", "none", Request(<<>>, FALSE), NoAnswer, <<>>, NoRaise,
          NullUnit, FALSE)
NoCreate == [authType |-> Undefined, known |-> Undefined,
             out |-> Created(Undefined, NoRaise)]

ToolNames == {"search", "foo"}
NoInvocation ==
  [req |-> ToolRequest(Undefined, Undefined, UndefinedVal),
   beh |-> Behaviour("none", ThrownValue("none", "", 0), FALSE),
   out |-> Invocation(FALSE, NoResponse, <<>>, 0)]

WireProviders == {"openai", "anthropic", "azure"}
Providers == WireProviders \cup {"native"}

Docs == { <<"{", "}">>, <<"{", "k", ":", "1", "2", "}">> }

NoCall == [any |-> FALSE, heads |-> 0, headFirst |-> FALSE, id |-> Undefined,
           name |-> Undefined, frags |-> 0, afterStop |-> FALSE]

\* the two runs of the concurrent model, and a run that has not started
Runs == {1, 2}
NoRun == [status |-> "idle", maps |-> 0, lines |-> <<>>, pos |-> 0,
          units |-> <<>>]

(* -------------------------- the stream reader ------------------------- *)

\* the reader of the response body held by the generator: whether it has
\* the lock, and how often releaseLock has run
NoReader == [state |-> "none", releases |-> 0]

\* response.body.getReader(), the first thing the generator does with the
\* response
getReader(r) == IF r.state = "none" THEN [r EXCEPT !.state = "locked"] ELSE r

\* a finally block that leaves the lock in place
releaseLockSkipped(r) == r

\* finally { reader.releaseLock() }
releaseLock(r) == [state |-> "released", releases |-> r.releases + 1]

\* the reader after the generator has run to the state status: still in the
\* try block, or out of it through the finally block.  The native generator
\* has no reader.
ReaderAfter(status) ==
  IF provider = "native" THEN ad.reader
  ELSE IF status = "open" THEN getReader(ad.reader)
  ELSE releaseLock(getReader(ad.reader))

\* the state of a Turn that has not run, before its stream
Fresh ==
  /\ pos = 0
  /\ nLines = 0
  /\ nGarbage = 0
  /\ weave = 0
  /\ call = NoCall
  /\ stopSeen = FALSE
  /\ ad = [acc |-> <<>>, idmap |-> EmptyIndexMap, status |-> "idle",
           reader |-> NoReader]
  /\ units = <<>>
  /\ ref = [acc |-> <<>>, idmap |-> EmptyIndexMap, units |-> <<>>,
            ended |-> FALSE]
  /\ aborted = FALSE
  /\ readAfterAbort = FALSE
  /\ pc = "idle"
  /\ events = <<>>
  /\ pendingToolCalls = <<>>
  /\ debugResponses = <<>>
  /\ reports = <<>>
  /\ failure = "none"

Init ==
  /\ provider \in Providers
  /\ doc \in (IF provider = "native" THEN {<<>>} ELSE Docs)
  /\ turn = 1
  /\ runCallIds = <<>>
  /\ genCount = 0
  /\ Fresh
  /\ toolRegistry = {"search"}
  /\ invocations = 0
  /\ lastCall = NoInvocation
  /\ telemetry = <<>>
  /\ lastApi = NoApiCall
  /\ globalContentGeneratorRegistry = <<>>
  /\ lastRegistered = [s \in Selectors |-> Undefined]
  /\ lastCreate = NoCreate
  /\ wire = <<>>
  /\ conc = [r \in Runs |-> NoRun]
  /\ heap = <<>>
  /\ blocks = [status |-> "open", sent |-> <<>>, acc |-> <<>>, units |-> <<>>]
  /\ net = [status |-> "idle", stream |-> <<>>, read |-> 0,
            g |-> [pending |-> <<>>, buffer |-> <<>>, acc |-> <<>>,
                   idmap |-> EmptyIndexMap, units |-> <<>>, ended |-> FALSE]]

(* ------------------------------ the Turn ------------------------------ *)

\* turn.ts:156-161: the request is issued and the generator obtained
Start ==
  /\ UNCHANGED <<execVars, apiVars, wireVars, concVars, byteVars>>
  /\ pc = "idle"
  /\ pc' = "streaming"
  /\ ad' = [ad EXCEPT !.status = "open"]
  /\ UNCHANGED <<provider, doc, pos, nLines, nGarbage, weave, turn, runCallIds,
                 call, stopSeen, units, ref, aborted, readAfterAbort, events,
                 pendingToolCalls, debugResponses, genCount, reports, failure>>

\* the caller signals the AbortSignal it passed to run
Abort ==
  /\ UNCHANGED <<execVars, apiVars, wireVars, concVars, byteVars>>
  /\ ~aborted
  /\ pc \in {"idle", "streaming"}
  /\ aborted' = TRUE
  /\ UNCHANGED <<streamVars, readAfterAbort, pc, events, pendingToolCalls,
                 debugResponses, genCount, reports, failure>>

\* a Turn that yields every event of a unit twice
ProcessedTwice(r) ==
  /\ events' = events \o r.events \o r.events
  /\ pendingToolCalls' = pendingToolCalls \o r.reqs

\* a Turn that yields the requests of a unit without pushing them
ProcessedNoPush(r) ==
  /\ events' = events \o r.events
  /\ pendingToolCalls' = pendingToolCalls

\* turn.ts:193-205: the events of a processed unit are yielded, its requests
\* pushed
Processed(r) ==
  /\ events' = events \o r.events
  /\ pendingToolCalls' = pendingToolCalls \o r.reqs

\* a Turn that looks at the signal only after it has processed the unit
DeliverThenCheck(acc, idmap, out, ended) ==
  /\ readAfterAbort' = (readAfterAbort \/ (aborted /\ out = NullUnit /\ ~ended))
  /\ UNCHANGED <<aborted, reports, failure>>
  /\ IF out = NullUnit
     THEN /\ ad' = [acc |-> acc, idmap |-> idmap,
                    status |-> IF ended THEN "returned" ELSE "open",
                    reader |-> ReaderAfter(IF ended THEN "returned" ELSE "open")]
          /\ pc' = IF ended THEN "completed" ELSE "streaming"
          /\ UNCHANGED <<units, events, pendingToolCalls, debugResponses,
                         genCount>>
     ELSE /\ units' = Append(units, out)
          /\ events' = events \o ProcessUnit(out, genCount).events
                          \o (IF aborted THEN <<UserCancelledEvent>> ELSE <<>>)
          /\ pendingToolCalls' =
               pendingToolCalls \o ProcessUnit(out, genCount).reqs
          /\ debugResponses' = Append(debugResponses, out)
          /\ genCount' = genCount + NumGenerated(out.functionCalls)
          /\ pc' = IF aborted THEN "cancelled"
                   ELSE IF ended THEN "completed" ELSE "streaming"
          /\ ad' = [acc |-> acc, idmap |-> idmap,
                    status |-> IF aborted THEN "abandoned"
                               ELSE IF ended THEN "returned" ELSE "open",
                    reader |-> ReaderAfter(IF aborted THEN "abandoned"
                                           ELSE IF ended THEN "returned"
                                           ELSE "open")]

\* turn.ts:163-206: the generator has run up to its next yield (out) or to
\* its end (ended), leaving its maps as acc and idmap
Deliver(acc, idmap, out, ended) ==
  /\ readAfterAbort' = (readAfterAbort \/ (aborted /\ out = NullUnit /\ ~ended))
  /\ UNCHANGED <<aborted, reports, failure>>
  /\ IF out = NullUnit
     THEN /\ ad' = [acc |-> acc, idmap |-> idmap,
                    status |-> IF ended THEN "returned" ELSE "open",
                    reader |-> ReaderAfter(IF ended THEN "returned" ELSE "open")]
          /\ pc' = IF ended THEN "completed" ELSE "streaming"
          /\ UNCHANGED <<units, events, pendingToolCalls, debugResponses,
                         genCount>>
     ELSE /\ units' = Append(units, out)
          /\ IF aborted
             THEN /\ events' = Append(events, UserCancelledEvent)
                  /\ pc' = "cancelled"
                  /\ ad' = [acc |-> acc, idmap |-> idmap,
                            status |-> "abandoned",
                            reader |-> ReaderAfter("abandoned")]
                  /\ UNCHANGED <<pendingToolCalls, debugResponses, genCount>>
             ELSE /\ Processed(ProcessUnit(out, genCount))
                  /\ debugResponses' = Append(debugResponses, out)
                  /\ genCount' = genCount + NumGenerated(out.functionCalls)
                  /\ pc' = IF ended THEN "completed" ELSE "streaming"
                  /\ ad' = [acc |-> acc, idmap |-> idmap,
                            status |-> IF ended THEN "returned" ELSE "open",
                            reader |-> ReaderAfter(IF ended THEN "returned"
                                                   ELSE "open")]

\* the generator's step r reaches the Turn
DeliverStep(r) == Deliver(r.acc, r.idmap, r.out, r.ended)

(* ----------------------------- the backend ---------------------------- *)

Min(a, b) == IF a < b THEN a ELSE b

\* the next piece of the argument text, of any length up to MaxFragLen
Pieces == { SubSeq(doc, pos + 1, pos + n) :
              n \in 0..Min(MaxFragLen, Len(doc) - pos) }

\* What the backend may send next.  garbage: the line is unparseable; tool:
\* it is about the tool call; head: it carries the call's id and name; frag:
\* the argument text it carries (Absent: none); stop: it is the terminator.
Choice(line, garbage, tool, head, id, name, frag, stop) ==
  [line |-> line, garbage |-> garbage, tool |-> tool, head |-> head,
   id |-> id, name |-> name, frag |-> frag, stop |-> stop]

Plain(line) ==
  Choice(line, FALSE, FALSE, FALSE, Undefined, Undefined, Absent, FALSE)

Garbage(line) ==
  Choice(line, TRUE, FALSE, FALSE, Undefined, Undefined, Absent, FALSE)

\* ids a backend may put on a tool call: its own, fresh for every stream, an
\* empty one, or none
BackendIds == {"c" \o ToString(turn), "", Undefined}

OpenAIChoices ==
  { Plain(Line(TRUE, FALSE, TRUE, Chunk(<<"t">>, <<>>))),
    Plain(Line(TRUE, FALSE, TRUE, Chunk(Absent, <<>>))),
    Choice(Line(TRUE, TRUE, FALSE, NoChoicesChunk),
           FALSE, FALSE, FALSE, Undefined, Undefined, Absent, TRUE),
    Garbage(Line(FALSE, FALSE, FALSE, NoChoicesChunk)),
    Garbage(Line(TRUE, FALSE, FALSE, NoChoicesChunk)),
    Garbage(Line(TRUE, FALSE, TRUE, NoChoicesChunk)) }
  \cup
  { Choice(Line(TRUE, FALSE, TRUE,
                Chunk(Absent, <<ToolCallDelta(0, id, "search", f)>>)),
           FALSE, TRUE, TRUE, id, "search", f, FALSE) :
      id \in (IF call.heads = 0 THEN BackendIds ELSE {}),
      f \in {Absent} \cup Pieces }
  \cup
  { Choice(Line(TRUE, FALSE, TRUE,
                Chunk(Absent, <<ToolCallDelta(0, Undefined, Undefined, f)>>)),
           FALSE, TRUE, FALSE, Undefined, Undefined, f, FALSE) :
      f \in Pieces }

AnthropicChoices ==
  { Plain(Line(TRUE, FALSE, TRUE,
       AnthropicEvent("content_block_delta", 0, "text_delta", t, Absent,
                      Undefined, Undefined))) : t \in {<<"t">>, <<>>} }
  \cup
  { Plain(Line(TRUE, FALSE, TRUE,
       AnthropicEvent("ping", 0, "", Absent, Absent, Undefined, Undefined))),
    Choice(Line(TRUE, FALSE, TRUE,
       AnthropicEvent("message_stop", 0, "", Absent, Absent, Undefined,
                      Undefined)),
       FALSE, FALSE, FALSE, Undefined, Undefined, Absent, TRUE),
    Garbage(Line(FALSE, FALSE, FALSE, NoChoicesChunk)),
    Garbage(Line(TRUE, FALSE, FALSE, NoChoicesChunk)) }
  \cup
  { Choice(Line(TRUE, FALSE, TRUE,
       AnthropicEvent("content_block_start", 0, "tool_use", Absent, Absent,
                      id, "lookup")),
       FALSE, TRUE, TRUE, id, "lookup", Absent, FALSE) :
      id \in (IF call.heads = 0 THEN BackendIds ELSE {}) }
  \cup
  { Choice(Line(TRUE, FALSE, TRUE,
       AnthropicEvent("content_block_delta", 0, "input_json_delta", Absent, f,
                      Undefined, Undefined)),
       FALSE, TRUE, FALSE, Undefined, Undefined, f, FALSE) : f \in Pieces }

\* the record of what was sent, after the choice c
Sent(c) ==
  /\ nLines' = nLines + 1
  /\ nGarbage' = IF c.garbage THEN nGarbage + 1 ELSE nGarbage
  /\ c.garbage => nGarbage < MaxGarbage
  /\ weave' = IF c.garbage THEN (IF weave = 1 THEN 2 ELSE weave)
              ELSE IF weave = 0 THEN 1
              ELSE IF weave = 2 THEN 3
              ELSE weave
  /\ pos' = IF c.frag = Absent THEN pos ELSE pos + Len(c.frag)
  /\ stopSeen' = (stopSeen \/ c.stop)
  /\ call' = IF ~c.tool THEN call
             ELSE [any |-> TRUE,
                   heads |-> IF c.head THEN call.heads + 1 ELSE call.heads,
                   headFirst |-> IF ~call.any THEN c.head
                                 ELSE call.headFirst,
                   id |-> IF c.head /\ call.heads = 0 THEN c.id ELSE call.id,
                   name |-> IF c.head /\ call.heads = 0 THEN c.name
                            ELSE call.name,
                   frags |-> IF c.frag = Absent THEN call.frags
                             ELSE call.frags + 1,
                   afterStop |-> (call.afterStop \/ stopSeen)]
  /\ UNCHANGED <<provider, doc, turn, runCallIds>>

Reading == pc = "streaming" /\ ad.status = "open" /\ nLines < MaxLines

\* the generator fed a parseable line, by the line handler step
RefAfter(r) ==
  [acc |-> r.acc, idmap |-> r.idmap,
   units |-> IF r.out = NullUnit THEN ref.units ELSE Append(ref.units, r.out),
   ended |-> r.ended]

\* part_002:130-165: a read returns one line
OpenAIRead ==
  /\ UNCHANGED <<execVars, apiVars, wireVars, concVars, byteVars>>
  /\ provider = "openai"
  /\ Reading
  /\ \E c \in OpenAIChoices :
       /\ Sent(c)
       /\ DeliverStep(OpenAILine(ad, c.line))
       /\ ref' = IF c.garbage THEN ref ELSE RefAfter(OpenAILine(ref, c.line))

\* part_001:126-154: a read returns one line
AzureRead ==
  /\ UNCHANGED <<execVars, apiVars, wireVars, concVars, byteVars>>
  /\ provider = "azure"
  /\ Reading
  /\ \E c \in OpenAIChoices :
       /\ Sent(c)
       /\ DeliverStep(AzureLine(ad, c.line))
       /\ ref' = IF c.garbage THEN ref ELSE RefAfter(AzureLine(ref, c.line))

\* anthropicContentGenerator.ts:147-175: a read returns one line
AnthropicRead ==
  /\ UNCHANGED <<execVars, apiVars, wireVars, concVars, byteVars>>
  /\ provider = "anthropic"
  /\ Reading
  /\ \E c \in AnthropicChoices :
       /\ Sent(c)
       /\ DeliverStep(AnthropicLine(ad, c.line))
       /\ ref' = IF c.garbage THEN ref
                 ELSE RefAfter(AnthropicLine(ref, c.line))

\* a read returns done: the byte stream is exhausted
StreamEnd ==
  /\ UNCHANGED <<execVars, apiVars, wireVars, concVars, byteVars>>
  /\ provider \in WireProviders
  /\ pc = "streaming" /\ ad.status = "open"
  /\ Deliver(ad.acc, ad.idmap,
             IF provider = "anthropic" THEN AnthropicFlush(ad) ELSE NullUnit,
             TRUE)
  /\ ref' = RefAfter([acc |-> ref.acc, idmap |-> ref.idmap,
                      out |-> IF provider = "anthropic"
                              THEN AnthropicFlush(ref) ELSE NullUnit,
                      ended |-> TRUE])
  /\ UNCHANGED <<provider, doc, pos, nLines, nGarbage, weave, turn, runCallIds,
                 call, stopSeen>>

\* units of the native generator: text, a thought, text with a call that has
\* an id, calls without id or arguments, a thought that also carries a call
ThoughtUnit(text, calls) ==
  [text |-> text, thought |-> TRUE, functionCalls |-> calls,
   finishReason |-> "STOP"]

NativeUnits ==
  { Unit(<<"t">>, <<>>, "STOP"),
    ThoughtUnit(<<"**", "S", "**", " ", "D">>, <<>>),
    ThoughtUnit(<<"D">>, <<FunctionCall(Undefined, "search", EmptyObj)>>),
    Unit(<<"t">>, <<FunctionCall(Undefined, "search", EmptyObj)>>, "STOP"),
    Unit(Absent, <<FunctionCall(Undefined, "search", UndefinedVal),
                   FunctionCall(Undefined, Undefined, EmptyObj)>>, "STOP") }

\* the native generator yields its next unit
NativeYield ==
  /\ UNCHANGED <<execVars, apiVars, wireVars, concVars, byteVars>>
  /\ provider = "native"
  /\ pc = "streaming" /\ ad.status = "open" /\ nLines < MaxUnits
  /\ \E u \in NativeUnits : Deliver(ad.acc, ad.idmap, u, FALSE)
  /\ nLines' = nLines + 1
  /\ UNCHANGED <<provider, doc, pos, nGarbage, weave, turn, runCallIds, call,
                 stopSeen, ref>>

\* the native generator is exhausted
NativeEnd ==
  /\ UNCHANGED <<execVars, apiVars, wireVars, concVars, byteVars>>
  /\ provider = "native"
  /\ pc = "streaming" /\ ad.status = "open"
  /\ Deliver(ad.acc, ad.idmap, NullUnit, TRUE)
  /\ UNCHANGED <<provider, doc, pos, nLines, nGarbage, weave, turn, runCallIds,
                 call, stopSeen, ref>>

\* What the request or a read of the stream raised, as toFriendlyError
\* classifies it: an UnauthorizedError, an error with a numeric status, an
\* error whose status is not a number, an error without status
FailureKinds == {"auth", "status", "text", "other"}

\* turn.ts:226-232, the status of the structured error; 0: undefined
StatusOf(k) == IF k = "status" THEN 500 ELSE 0

\* one call of reportError: its error, its context, and the number of events
\* the run had emitted when it was called
Report(k, at) ==
  [error |-> k, context |-> <<"curatedHistory", "req">>, at |-> at]

\* the catch block's outcome: the run's end, the events it emits, the
\* reports it makes
Outcome(end, emitted, reported) ==
  [pc |-> end, events |-> emitted, reports |-> reported]

\* a catch block that looks at the signal before the error's class
catchSignalFirst(k, signalAborted, at) ==
  IF signalAborted THEN Outcome("cancelled", <<UserCancelledEvent>>, <<>>)
  ELSE IF k = "auth" THEN Outcome("rethrown", <<>>, <<>>)
  ELSE Outcome("failed",
               <<ErrorEvent([message |-> k, status |-> StatusOf(k)])>>,
               <<Report(k, at)>>)

\* a catch block that emits the Error event and reports afterwards
catchReportLast(k, signalAborted, at) ==
  IF k = "auth" THEN Outcome("rethrown", <<>>, <<>>)
  ELSE IF signalAborted
  THEN Outcome("cancelled", <<UserCancelledEvent>>, <<>>)
  ELSE Outcome("failed",
               <<ErrorEvent([message |-> k, status |-> StatusOf(k)])>>,
               <<Report(k, at + 1)>>)

\* a catch block that emits the Error event after the cancellation event
catchCancelThenError(k, signalAborted, at) ==
  IF k = "auth" THEN Outcome("rethrown", <<>>, <<>>)
  ELSE IF signalAborted
  THEN Outcome("cancelled",
               <<UserCancelledEvent,
                 ErrorEvent([message |-> k, status |-> StatusOf(k)])>>,
               <<>>)
  ELSE Outcome("failed",
               <<ErrorEvent([message |-> k, status |-> StatusOf(k)])>>,
               <<Report(k, at)>>)

\* a catch block that treats a failure during cancellation as any other
catchIgnoresSignal(k, signalAborted, at) ==
  IF k = "auth" THEN Outcome("rethrown", <<>>, <<>>)
  ELSE Outcome("failed",
               <<ErrorEvent([message |-> k, status |-> StatusOf(k)])>>,
               <<Report(k, at)>>)

\* turn.ts:207-238, the catch block of Turn.run for the failure k
catch(k, signalAborted, at) ==
  IF k = "auth" THEN Outcome("rethrown", <<>>, <<>>)
  ELSE IF signalAborted
  THEN Outcome("cancelled", <<UserCancelledEvent>>, <<>>)
  ELSE Outcome("failed",
               <<ErrorEvent([message |-> k, status |-> StatusOf(k)])>>,
               <<Report(k, at)>>)

\* turn.ts:207-238: the request or a read of the stream raises; the request
\* raises before the generator has a reader (atRead false)
StreamFails ==
  /\ UNCHANGED <<execVars, apiVars, wireVars, concVars, byteVars>>
  /\ pc = "streaming" /\ ad.status = "open"
  /\ \E k \in FailureKinds :
       /\ failure' = k
       /\ pc' = catch(k, aborted, Len(events)).pc
       /\ events' = events \o catch(k, aborted, Len(events)).events
       /\ reports' = reports \o catch(k, aborted, Len(events)).reports
  /\ \E atRead \in (IF ad.reader.state = "none" THEN BOOLEAN ELSE {TRUE}) :
       ad' = [ad EXCEPT !.status = "threw",
                        !.reader = IF atRead THEN ReaderAfter("threw") ELSE @]
  /\ UNCHANGED <<provider, doc, pos, nLines, nGarbage, weave, turn, runCallIds,
                 call, stopSeen, units, ref, aborted, readAfterAbort,
                 pendingToolCalls, debugResponses, genCount>>

Next ==
  \/ Start
  \/ Abort
  \/ OpenAIRead
  \/ AzureRead
  \/ AnthropicRead
  \/ StreamEnd
  \/ NativeYield
  \/ NativeEnd
  \/ StreamFails

Spec == Init /\ [][Next]_vars

(* --------------------- successive Turns of one run -------------------- *)

CallIdsOf(reqs) == [i \in 1..Len(reqs) |-> reqs[i].callId]

\* A Turn has reached a terminal state and the next exchange of the run gets
\* a Turn of its own, with a new stream and a new signal; the ids of the
\* requests made so far stay in use in the conversation.
NewTurn ==
  /\ UNCHANGED <<execVars, apiVars, wireVars, concVars, byteVars>>
  /\ pc \in {"completed", "cancelled", "failed"}
  /\ turn < MaxTurns
  /\ turn' = turn + 1
  /\ runCallIds' = runCallIds \o CallIdsOf(pendingToolCalls)
  /\ pos' = 0
  /\ nLines' = 0
  /\ nGarbage' = 0
  /\ weave' = 0
  /\ call' = NoCall
  /\ stopSeen' = FALSE
  /\ ad' = [acc |-> <<>>, idmap |-> EmptyIndexMap, status |-> "idle",
            reader |-> NoReader]
  /\ units' = <<>>
  /\ ref' = [acc |-> <<>>, idmap |-> EmptyIndexMap, units |-> <<>>,
             ended |-> FALSE]
  /\ aborted' = FALSE
  /\ readAfterAbort' = FALSE
  /\ pc' = "idle"
  /\ events' = <<>>
  /\ pendingToolCalls' = <<>>
  /\ debugResponses' = <<>>
  /\ failure' = "none"
  /\ UNCHANGED <<provider, doc, genCount, reports>>

\* the executor is invoked for a request, against a tool that behaves as beh
ExecuteToolCall ==
  /\ invocations < MaxInvocations
  /\ \E callId \in {"c1", "c2"}, name \in ToolNames,
        args \in {EmptyObj, UndefinedVal}, beh \in Behaviours :
       /\ lastCall' =
            [req |-> ToolRequest(callId, name, args), beh |-> beh,
             out |-> executeToolCall(ToolRequest(callId, name, args),
                                     toolRegistry, beh)]
       /\ telemetry' =
            telemetry \o executeToolCall(ToolRequest(callId, name, args),
                                         toolRegistry, beh).logs
  /\ invocations' = invocations + 1
  /\ UNCHANGED <<streamVars, turnVars, toolRegistry, apiVars, wireVars,
                 concVars, byteVars>>

\* the executor alone, over a registry that holds one of the two tool names
InitExec ==
  /\ Init
  /\ provider = "native"

NextExec == ExecuteToolCall

SpecExec == InitExec /\ [][NextExec]_vars

(* ------------------- calls of the adapters' methods ------------------- *)

PartsChoices ==
  { <<>>, <<TextPart("hi")>>, <<TextPart("")>>,
    <<TextPart("hi"), ResponsePart("search", "ok")>>, <<OtherPart>> }
Contents == { Content(r, p) : r \in {"user", "model"}, p \in PartsChoices }
Histories == UNION { [1..n -> Contents] : n \in 0..MaxContents }
ApiRequests == { Request(h, j) : h \in Histories, j \in BOOLEAN }

\* non-success answers: two statuses, a JSON body and one that is not JSON
FailAnswers ==
  { HttpAnswer(FALSE, st[1], st[2], b[1], b[2], NoChoicesChunk) :
      st \in { <<401, "Unauthorized">>, <<500, "Internal Server Error">> },
      b \in { <<"{\"error\":\"x\"}", TRUE>>, <<"<html>", FALSE>> } }

Ok(data) == HttpAnswer(TRUE, 200, "OK", "", TRUE, data)

\* argument texts of tool calls, two that are JSON and two that are not
ArgTexts ==
  { <<"{", "}">>, <<"{", "k", ":", "1", "}">>, <<"{">>, <<"}", "{">> }

\* answers that carry two tool calls
ToolCallAnswers ==
  { Ok(Chunk(Absent, <<ToolCallDelta(0, "a", "search", x),
                       ToolCallDelta(1, "b", "lookup", y)>>)) :
      x \in ArgTexts, y \in ArgTexts }

\* ok answers to a non-streaming request: one answer without tool calls
\* (also with empty or null content), no answer at all, tool calls
OpenAIAnswers ==
  { Ok(Chunk(c, <<>>)) : c \in {<<"t">>, <<"a", "b">>, <<>>, Absent} }
    \cup { Ok(NoChoicesChunk) } \cup ToolCallAnswers

AnthropicAnswers ==
  { Ok([content |-> bs]) :
      bs \in { <<TextBlock(<<"t">>)>>,
               <<TextBlock(<<"a">>), TextBlock(<<"b">>)>>,
               <<TextBlock(<<>>)>>, <<>>,
               <<TextBlock(<<"t">>), ToolUseBlock("a", "lookup", EmptyObj)>> } }

OkAnswers(backend) ==
  IF backend = "anthropic" THEN AnthropicAnswers ELSE OpenAIAnswers

\* The methods keep nothing between two calls (the adapters' fields are set
\* by the constructor only), so each call is taken from the idle state.
ApiStep ==
  /\ lastApi = NoApiCall
  /\ UNCHANGED <<streamVars, turnVars, execVars, wireVars, concVars, byteVars,
                 globalContentGeneratorRegistry, lastRegistered, lastCreate>>

\* generateContent is called on an adapter and the backend answers
GenerateContent ==
  /\ ApiStep
  /\ \E p \in WireProviders, r \in ApiRequests :
       \/ \E a \in FailAnswers : lastApi' = generateContent(p, r, a)
       \/ \E a \in OkAnswers(p) : lastApi' = generateContent(p, r, a)

\* generateContentStream is called and the backend answers the request
GenerateContentStream ==
  /\ ApiStep
  /\ \E p \in WireProviders, r \in ApiRequests,
        a \in FailAnswers \cup {Ok(NoChoicesChunk)} :
       lastApi' = generateContentStream(p, r, a)

\* embedContent is called on an adapter
EmbedContent ==
  /\ ApiStep
  /\ \E p \in WireProviders, r \in ApiRequests,
        a \in FailAnswers \cup {Ok(NoChoicesChunk)} :
       lastApi' = embedContent(p, r, a)

\* a stream that carried two tool calls ends and its accumulator is flushed
FlushToolCalls ==
  /\ ApiStep
  /\ \E p \in {"openai", "anthropic"}, a \in ToolCallAnswers :
       lastApi' = flushedToolCalls(p, a)

InitApi ==
  /\ Init
  /\ provider = "native"

NextApi ==
  \/ GenerateContent
  \/ GenerateContentStream
  \/ EmbedContent
  \/ FlushToolCalls

SpecApi == InitApi /\ [][NextApi]_vars

\* index.ts:36-38
RegisterContentGenerator ==
  /\ \E s \in Selectors, c \in Classes :
       /\ globalContentGeneratorRegistry' =
            registerContentGenerator(globalContentGeneratorRegistry, s, c)
       /\ lastRegistered' = [lastRegistered EXCEPT ![s] = c]
  /\ UNCHANGED <<streamVars, turnVars, execVars, wireVars, concVars, byteVars, lastApi,
                 lastCreate>>

\* index.ts:12-31
CreateCustomContentGenerator ==
  /\ \E s \in Selectors \cup BuiltIn \cup {"unheard"} :
       lastCreate' =
         [authType |-> s,
          known |-> IF s \in Selectors THEN lastRegistered[s] ELSE Undefined,
          out |-> createCustomContentGenerator(globalContentGeneratorRegistry,
                                               s)]
  /\ UNCHANGED <<streamVars, turnVars, execVars, wireVars, concVars, byteVars, lastApi,
                 globalContentGeneratorRegistry, lastRegistered>>

NextRegistry ==
  \/ RegisterContentGenerator
  \/ CreateCustomContentGenerator

SpecRegistry == InitApi /\ [][NextRegistry]_vars

(* ------------------ streams that carry two tool calls ----------------- *)

\* the two tool calls of such a stream
WireCalls ==
  << [index |-> 0, id |-> "a", name |-> "search",
      doc |-> <<"{", "k", ":", "1", "}">>],
     [index |-> 1, id |-> "b", name |-> "lookup",
      doc |-> <<"{", "k", ":", "2", "}">>] >>

\* What the backend sends on one line.  kind "text": a text delta; "head":
\* the first chunk of the call c, with its id and name; "frag": a fragment of
\* the argument text of the call c; "stop": the terminator
Sending(kind, c, text) == [kind |-> kind, c |-> c, text |-> text]

\* the argument text of the call c sent on the lines w
RECURSIVE SentOf(_, _)
SentOf(w, c) ==
  IF w = <<>> THEN <<>>
  ELSE (IF Head(w).kind = "frag" /\ Head(w).c = c THEN Head(w).text
        ELSE <<>>) \o SentOf(Tail(w), c)

Started(w, c) == \E i \in 1..Len(w) : w[i].kind = "head" /\ w[i].c = c

\* the fragments the backend may send next for the call c: at least two
\* characters, or the one that is left
NextFragments(c) ==
  { Sending("frag", c,
            SubSeq(WireCalls[c].doc, Len(SentOf(wire, c)) + 1,
                   Len(SentOf(wire, c)) + n)) :
      n \in Min(2, Len(WireCalls[c].doc) - Len(SentOf(wire, c)))
              ..Min(MaxFragLen, Len(WireCalls[c].doc) - Len(SentOf(wire, c))) }
    \ { Sending("frag", c, <<>>) }

IsTextSending(s) == s.kind = "text"

\* a text delta names the line it is sent on
Sendings ==
  (IF Len(SelectSeq(wire, IsTextSending)) < MaxWireTexts
   THEN { Sending("text", 0, <<ToString(Len(wire) + 1)>>) } ELSE {})
    \cup (IF stopSeen THEN {} ELSE { Sending("stop", 0, Absent) })
    \cup { Sending("head", c, Absent) :
             c \in { d \in 1..Len(WireCalls) : ~Started(wire, d) } }
    \cup UNION { NextFragments(c) :
                   c \in { d \in 1..Len(WireCalls) : Started(wire, d) } }

\* the line of an OpenAI-compatible stream for the sending s
OpenAIWireLine(s) ==
  IF s.kind = "stop" THEN Line(TRUE, TRUE, FALSE, NoChoicesChunk)
  ELSE IF s.kind = "text" THEN Line(TRUE, FALSE, TRUE, Chunk(s.text, <<>>))
  ELSE IF s.kind = "head"
  THEN Line(TRUE, FALSE, TRUE,
            Chunk(Absent, <<ToolCallDelta(WireCalls[s.c].index,
                                          WireCalls[s.c].id,
                                          WireCalls[s.c].name, Absent)>>))
  ELSE Line(TRUE, FALSE, TRUE,
            Chunk(Absent, <<ToolCallDelta(WireCalls[s.c].index, Undefined,
                                          Undefined, s.text)>>))

\* the line of an Anthropic stream for the sending s
AnthropicWireLine(s) ==
  Line(TRUE, FALSE, TRUE,
       IF s.kind = "stop"
       THEN AnthropicEvent("message_stop", 0, "", Absent, Absent, Undefined,
                           Undefined)
       ELSE IF s.kind = "text"
       THEN AnthropicEvent("content_block_delta", 0, "text_delta", s.text,
                           Absent, Undefined, Undefined)
       ELSE IF s.kind = "head"
       THEN AnthropicEvent("content_block_start", WireCalls[s.c].index,
                           "tool_use", Absent, Absent, WireCalls[s.c].id,
                           WireCalls[s.c].name)
       ELSE AnthropicEvent("content_block_delta", WireCalls[s.c].index,
                           "input_json_delta", Absent, s.text, Undefined,
                           Undefined))

\* part_002:130-165, anthropicContentGenerator.ts:147-175: a read returns one
\* line of a stream that carries two tool calls
WireRead ==
  /\ UNCHANGED <<execVars, apiVars, concVars, byteVars>>
  /\ pc = "streaming" /\ ad.status = "open" /\ Len(wire) < MaxWireLines
  /\ \E s \in Sendings :
       /\ wire' = Append(wire, s)
       /\ stopSeen' = (stopSeen \/ s.kind = "stop")
       /\ DeliverStep(IF provider = "openai"
                      THEN OpenAILine(ad, OpenAIWireLine(s))
                      ELSE AnthropicLine(ad, AnthropicWireLine(s)))
  /\ UNCHANGED <<provider, doc, pos, nLines, nGarbage, weave, turn, runCallIds,
                 call, ref>>

InitWire ==
  /\ Init
  /\ provider \in {"openai", "anthropic"}
  /\ doc = <<"{", "}">>

NextWire ==
  \/ Start
  \/ WireRead
  \/ StreamEnd

SpecWire == InitWire /\ [][NextWire]_vars

\* a run of MaxTurns exchanges against an OpenAI-compatible backend
InitRun ==
  /\ Init
  /\ provider = "openai"
  /\ doc = <<"{", "}">>

NextRun ==
  \/ Start
  \/ Abort
  \/ OpenAIRead
  \/ StreamEnd
  \/ StreamFails
  \/ NewTurn

SpecRun == InitRun /\ [][NextRun]_vars

(* ---------------- two runs of one Turn on one adapter ----------------- *)

\* the argument text the backend streams to the run r
ConcDoc(r) == <<"{", "k", ":", ToString(r), "}">>

\* part_002:119-127, anthropicContentGenerator.ts:139-144 with one pair of
\* Maps kept for all the invocations
NewMapsShared(h) ==
  IF h = <<>>
  THEN [heap |-> <<[acc |-> <<>>, idmap |-> EmptyIndexMap]>>, ref |-> 1]
  ELSE [heap |-> h, ref |-> 1]

\* part_002:119-127, anthropicContentGenerator.ts:139-144: the invocation
\* makes its Maps; ref is where they are
NewMaps(h) ==
  [heap |-> Append(h, [acc |-> <<>>, idmap |-> EmptyIndexMap]),
   ref |-> Len(h) + 1]

\* the lines the backend may send next to the run r: a text delta at the
\* start, the head of its tool call (index 0, id "a", the same for both runs),
\* the next fragment of its argument text (before the head too, when the
\* call has no id yet), the terminator
ConcSendings(r) ==
  { [kind |-> "stop", id |-> Undefined, text |-> Absent] }
  \cup
  { [kind |-> "text", id |-> Undefined, text |-> t] :
      t \in (IF conc[r].lines = <<>> THEN {<<"t">>} ELSE {}) }
  \cup
  { [kind |-> "head", id |-> id, text |-> Absent] :
      id \in (IF \E i \in 1..Len(conc[r].lines) :
                    conc[r].lines[i].kind = "head"
              THEN {} ELSE {"a"}) }
  \cup
  { [kind |-> "frag", id |-> Undefined,
     text |-> SubSeq(ConcDoc(r), conc[r].pos + 1, conc[r].pos + n)] :
      n \in (IF conc[r].pos < Len(ConcDoc(r))
             THEN {Min(MaxFragLen, Len(ConcDoc(r)) - conc[r].pos)} ELSE {}) }

ConcOpenAILine(s) ==
  IF s.kind = "stop" THEN Line(TRUE, TRUE, FALSE, NoChoicesChunk)
  ELSE IF s.kind = "text" THEN Line(TRUE, FALSE, TRUE, Chunk(s.text, <<>>))
  ELSE Line(TRUE, FALSE, TRUE,
            Chunk(Absent,
                  <<ToolCallDelta(0, s.id,
                                  IF s.kind = "head" THEN "search"
                                  ELSE Undefined, s.text)>>))

ConcAnthropicLine(s) ==
  Line(TRUE, FALSE, TRUE,
       IF s.kind = "stop"
       THEN AnthropicEvent("message_stop", 0, "", Absent, Absent, Undefined,
                           Undefined)
       ELSE IF s.kind = "text"
       THEN AnthropicEvent("content_block_delta", 0, "text_delta", s.text,
                           Absent, Undefined, Undefined)
       ELSE IF s.kind = "head"
       THEN AnthropicEvent("content_block_start", 0, "tool_use", Absent,
                           Absent, s.id, "search")
       ELSE AnthropicEvent("content_block_delta", 0, "input_json_delta",
                           Absent, s.text, Undefined, Undefined))

\* the generator with the maps m, fed the line of the sending s
ConcLine(m, s) ==
  IF provider = "openai" THEN OpenAILine(m, ConcOpenAILine(s))
  ELSE AnthropicLine(m, ConcAnthropicLine(s))

\* the run after its generator made the step st on the sending s
ConcAfter(run, s, st) ==
  [status |-> IF st.ended THEN "returned" ELSE "open",
   maps |-> run.maps,
   lines |-> Append(run.lines, s),
   pos |-> IF s.kind = "frag" THEN run.pos + Len(s.text) ELSE run.pos,
   units |-> IF st.out = NullUnit THEN run.units
             ELSE Append(run.units, st.out)]

\* turn.ts:156-161: run issues its request, whatever the other run of the
\* Turn is doing, and the adapter's generator starts with its own Maps
ConcRun(r) ==
  /\ conc[r].status = "idle"
  /\ heap' = NewMaps(heap).heap
  /\ conc' = [conc EXCEPT ![r].status = "open",
                          ![r].maps = NewMaps(heap).ref]
  /\ UNCHANGED <<streamVars, turnVars, execVars, apiVars, wireVars, byteVars>>

\* part_002:130-165, anthropicContentGenerator.ts:147-175: a read of the
\* run's stream returns one line
ConcRead(r) ==
  /\ conc[r].status = "open"
  /\ Len(conc[r].lines) < MaxConcLines
  /\ \E s \in ConcSendings(r) :
       /\ heap' = [heap EXCEPT ![conc[r].maps] =
                     [acc |-> ConcLine(heap[conc[r].maps], s).acc,
                      idmap |-> ConcLine(heap[conc[r].maps], s).idmap]]
       /\ conc' = [conc EXCEPT ![r] =
                     ConcAfter(conc[r], s, ConcLine(heap[conc[r].maps], s))]
  /\ UNCHANGED <<streamVars, turnVars, execVars, apiVars, wireVars, byteVars>>

\* part_002:132, anthropicContentGenerator.ts:149 and 176-184: the bytes of
\* the run's stream are exhausted
ConcEnd(r) ==
  /\ conc[r].status = "open"
  /\ conc' = [conc EXCEPT
       ![r].status = "returned",
       ![r].units =
          IF provider = "anthropic"
               /\ AnthropicFlush(heap[conc[r].maps]) # NullUnit
          THEN Append(@, AnthropicFlush(heap[conc[r].maps])) ELSE @]
  /\ UNCHANGED <<streamVars, turnVars, execVars, apiVars, wireVars, heap,
                 byteVars>>

\* the consumer of the run's stream leaves its loop at a unit
ConcAbandon(r) ==
  /\ conc[r].status = "open"
  /\ conc[r].units # <<>>
  /\ conc' = [conc EXCEPT ![r].status = "abandoned"]
  /\ UNCHANGED <<streamVars, turnVars, execVars, apiVars, wireVars, heap,
                 byteVars>>

InitConc ==
  /\ Init
  /\ provider \in {"openai", "anthropic"}
  /\ doc = <<"{", "}">>

NextConc ==
  \/ \E r \in Runs : ConcRun(r)
  \/ \E r \in Runs : ConcRead(r)
  \/ \E r \in Runs : ConcEnd(r)
  \/ \E r \in Runs : ConcAbandon(r)

SpecConc == InitConc /\ [][NextConc]_vars

(* ------------------ the bytes of a stream and its reads ---------------- *)

\* Bytes are one-character strings; LeadByte and TailByte are the two bytes
\* of the character Accented, every other byte is the character itself.
LeadByte == "C3"
TailByte == "A9"
Accented == "e'"
Replacement == "?"

\* the characters of bytes, one after the other; pending is the lead byte
\* that waits for its tail byte, stream whether a lead byte at the end of the
\* bytes is kept for the next chunk
RECURSIVE DecodeFrom(_, _, _, _)
DecodeFrom(chars, pending, bytes, stream) ==
  IF bytes = <<>>
  THEN (IF pending # <<>> /\ ~stream
        THEN [chars |-> Append(chars, Replacement), pending |-> <<>>]
        ELSE [chars |-> chars, pending |-> pending])
  ELSE IF pending # <<>>
  THEN (IF Head(bytes) = TailByte
        THEN DecodeFrom(Append(chars, Accented), <<>>, Tail(bytes), stream)
        ELSE DecodeFrom(Append(chars, Replacement), <<>>, bytes, stream))
  ELSE IF Head(bytes) = LeadByte
  THEN DecodeFrom(chars, <<LeadByte>>, Tail(bytes), stream)
  ELSE DecodeFrom(Append(chars, IF Head(bytes) = TailByte THEN Replacement
                                ELSE Head(bytes)),
                  <<>>, Tail(bytes), stream)

\* TextDecoder.decode(value) without { stream: true }: a sequence the chunk
\* cuts becomes replacement characters
DecodeEach(pending, bytes) == DecodeFrom(<<>>, <<>>, bytes, FALSE)

\* decoder.decode(value, { stream: true }): pending is the lead byte a
\* former chunk ended with
Decode(pending, bytes) == DecodeFrom(<<>>, pending, bytes, TRUE)

\* buffer.split('\n') and lines.pop(): the complete lines of the text and
\* what follows the last line feed; cur is the line being read
RECURSIVE SplitFrom(_, _, _)
SplitFrom(lines, cur, text) ==
  IF text = <<>> THEN [lines |-> lines, rest |-> cur]
  ELSE IF Head(text) = "\n"
  THEN SplitFrom(Append(lines, cur), <<>>, Tail(text))
  ELSE SplitFrom(lines, Append(cur, Head(text)), Tail(text))

Split(text, cur) == SplitFrom(<<>>, cur, text)

DataPrefix == <<"d", "a", "t", "a", ":", " ">>
DoneText == <<"[", "D", "O", "N", "E", "]">>

\* line.startsWith('data: ')
StartsWithData(line) == Len(line) >= 6 /\ Take(line, 6) = DataPrefix

\* The JSON texts of the streams are written in a short form: {tX} is a chunk
\* with the text X, {h} one with the head of a tool call (index 0, id a, name
\* search), {f} one with a fragment of its arguments; any other text is not
\* JSON.  JSON.parse skips white space around the text.
IsJsonText(data) ==
  \/ Len(data) = 4 /\ data[1] = "{" /\ data[2] = "t" /\ data[4] = "}"
  \/ data = <<"{", "h", "}">>
  \/ data = <<"{", "f", "}">>

FragmentText == <<"{", "k", ":", "1", "}">>

OpenAIObject(data) ==
  IF data[2] = "t" THEN Chunk(<<data[3]>>, <<>>)
  ELSE IF data[2] = "h"
  THEN Chunk(Absent, <<ToolCallDelta(0, "a", "search", Absent)>>)
  ELSE Chunk(Absent, <<ToolCallDelta(0, Undefined, Undefined, FragmentText)>>)

AnthropicObject(data) ==
  IF data[2] = "t"
  THEN AnthropicEvent("content_block_delta", 0, "text_delta", <<data[3]>>,
                      Absent, Undefined, Undefined)
  ELSE IF data[2] = "h"
  THEN AnthropicEvent("content_block_start", 0, "tool_use", Absent, Absent,
                      "a", "search")
  ELSE AnthropicEvent("content_block_delta", 0, "input_json_delta", Absent,
                      FragmentText, Undefined, Undefined)

\* what the loop body sees of the text data of a 'data: ' line
DataLine(p, data) ==
  Line(TRUE, data = DoneText, IsJsonText(Trim(data)),
       IF ~IsJsonText(Trim(data)) THEN NoChoicesChunk
       ELSE IF p = "anthropic" THEN AnthropicObject(Trim(data))
       ELSE OpenAIObject(Trim(data)))

\* part_002:138-140, part_001:134-136 (with trim),
\* anthropicContentGenerator.ts:155-161: one line of the text
ParseLine(p, line) ==
  IF ~StartsWithData(line) THEN Line(FALSE, FALSE, FALSE, NoChoicesChunk)
  ELSE DataLine(p, IF p = "azure" THEN Trim(Drop(line, 6)) ELSE Drop(line, 6))

\* the generator g after the step st of its line handler
AfterLine(g, st) ==
  [g EXCEPT !.acc = st.acc, !.idmap = st.idmap,
            !.units = IF st.out = NullUnit THEN @ ELSE Append(@, st.out),
            !.ended = st.ended]

LineStep(p, g, line) ==
  IF p = "openai" THEN OpenAILine(g, line)
  ELSE IF p = "azure" THEN AzureLine(g, line)
  ELSE AnthropicLine(g, line)

\* for (const line of lines), left at the return of [DONE]
RECURSIVE FeedLines(_, _, _)
FeedLines(p, g, lines) ==
  IF lines = <<>> \/ g.ended THEN g
  ELSE FeedLines(p, AfterLine(g, LineStep(p, g, ParseLine(p, Head(lines)))),
                 Tail(lines))

\* the generator before its first read
NewGenerator ==
  [pending |-> <<>>, buffer |-> <<>>, acc |-> <<>>, idmap |-> EmptyIndexMap,
   units |-> <<>>, ended |-> FALSE]

Buffered(p, g, decoded, split) ==
  FeedLines(p, [g EXCEPT !.pending = decoded.pending, !.buffer = split.rest],
            split.lines)

Decoded(p, g, decoded) ==
  Buffered(p, g, decoded, Split(g.buffer \o decoded.chars, <<>>))

\* part_002:131-165, part_001:127-154, anthropicContentGenerator.ts:148-175:
\* one pass of the read loop, for the chunk value
ReadChunk(p, g, value) ==
  IF g.ended THEN g ELSE Decoded(p, g, Decode(g.pending, value))

\* if (done) break, and what follows the loop
ReadDone(p, g) ==
  IF g.ended THEN g
  ELSE [g EXCEPT !.units = IF p = "anthropic" /\ AnthropicFlush(g) # NullUnit
                           THEN Append(@, AnthropicFlush(g)) ELSE @,
                 !.ended = TRUE]

\* the bytes of the lines a backend sends: text, text with a character of
\* two bytes, the head of a tool call, a fragment, the terminator, the
\* terminator followed by a blank, an event line
NetLines ==
  { DataPrefix \o <<"{", "t", "x", "}">>,
    DataPrefix \o <<"{", "t", LeadByte, TailByte, "}">>,
    DataPrefix \o <<"{", "h", "}">>,
    DataPrefix \o <<"{", "f", "}">>,
    DataPrefix \o DoneText,
    DataPrefix \o DoneText \o <<" ">>,
    <<"e", "v", "e", "n", "t", ":", " ", "x">> }

\* the byte streams of up to n lines, the last one with or without its line
\* feed
RECURSIVE NetStreams(_)
NetStreams(n) ==
  IF n = 0 THEN {<<>>}
  ELSE {<<>>} \cup NetLines
       \cup { l \o <<"\n">> \o s : l \in NetLines, s \in NetStreams(n - 1) }

\* the adapter's streaming call is made and the backend's answer is stream
NetOpen ==
  /\ net.status = "idle"
  /\ \E stream \in NetStreams(MaxNetLines) :
       net' = [net EXCEPT !.status = "open", !.stream = stream]
  /\ UNCHANGED <<streamVars, turnVars, execVars, apiVars, wireVars, concVars,
                 blocks>>

\* the sizes of the next chunk: a few bytes, or all that is left
ChunkSizes ==
  ({ n \in 1..MaxChunk : net.read + n <= Len(net.stream) }
   \cup { Len(net.stream) - net.read }) \ {0}

\* reader.read() returns the next bytes of the stream, cut anywhere
NetRead ==
  /\ net.status = "open"
  /\ \E n \in ChunkSizes :
       net' = [net EXCEPT
                 !.read = @ + n,
                 !.g = ReadChunk(provider, @,
                                 SubSeq(net.stream, net.read + 1, net.read + n))]
  /\ UNCHANGED <<streamVars, turnVars, execVars, apiVars, wireVars, concVars,
                 blocks>>

\* reader.read() returns done
NetDone ==
  /\ net.status = "open"
  /\ net.read = Len(net.stream)
  /\ net' = [net EXCEPT !.status = "done", !.g = ReadDone(provider, @)]
  /\ UNCHANGED <<streamVars, turnVars, execVars, apiVars, wireVars, concVars,
                 blocks>>

InitBytes ==
  /\ Init
  /\ provider \in WireProviders
  /\ doc = <<"{", "}">>

NextBytes ==
  \/ NetOpen
  \/ NetRead
  \/ NetDone

SpecBytes == InitBytes /\ [][NextBytes]_vars

(* -------------- the content blocks of an Anthropic stream -------------- *)

\* the events a backend sends: the start of a tool_use block at index 0 or
\* 1, a second start for index 0, a delta of argument text for the index 0,
\* 1 or 2 (no block ever starts at index 2), a text delta, message_stop
BlockEvents ==
  { AnthropicEvent("content_block_start", 0, "tool_use", Absent, Absent,
                   "a", "lookup"),
    AnthropicEvent("content_block_start", 1, "tool_use", Absent, Absent,
                   "b", "search"),
    AnthropicEvent("content_block_start", 0, "tool_use", Absent, Absent,
                   "c", "search"),
    AnthropicEvent("content_block_delta", 0, "text_delta", <<"t">>, Absent,
                   Undefined, Undefined),
    AnthropicEvent("message_stop", 0, "", Absent, Absent, Undefined,
                   Undefined) }
  \cup
  { AnthropicEvent("content_block_delta", i, "input_json_delta", Absent, f,
                   Undefined, Undefined) :
      i \in 0..2, f \in {<<"{">>, <<"}">>} }

\* the stream after the step st of the line handler for the event e
BlocksAfter(e, st) ==
  [blocks EXCEPT !.sent = Append(@, e),
                 !.acc = st.acc,
                 !.units = IF st.out = NullUnit THEN @ ELSE Append(@, st.out)]

\* anthropicContentGenerator.ts:147-175: a read returns the line of one event
BlockRead ==
  /\ blocks.status = "open"
  /\ Len(blocks.sent) < MaxBlockLines
  /\ \E e \in BlockEvents :
       blocks' = BlocksAfter(e, AnthropicLine(
                   [acc |-> blocks.acc, idmap |-> EmptyIndexMap],
                   Line(TRUE, FALSE, TRUE, e)))
  /\ UNCHANGED <<streamVars, turnVars, execVars, apiVars, wireVars, concVars,
                 net>>

\* anthropicContentGenerator.ts:149 and 176-184: the bytes are exhausted
BlockEnd ==
  /\ blocks.status = "open"
  /\ blocks' = [blocks EXCEPT
                  !.status = "done",
                  !.units = IF AnthropicFlush(blocks) = NullUnit THEN @
                            ELSE Append(@, AnthropicFlush(blocks))]
  /\ UNCHANGED <<streamVars, turnVars, execVars, apiVars, wireVars, concVars,
                 net>>

InitBlocks ==
  /\ Init
  /\ provider = "anthropic"
  /\ doc = <<"{", "}">>

NextBlocks ==
  \/ BlockRead
  \/ BlockEnd

SpecBlocks == InitBlocks /\ [][NextBlocks]_vars

(* ------------------------------ properties ---------------------------- *)

\* the function-call descriptors of a sequence of units, in order
RECURSIVE AllCalls(_)
AllCalls(us) ==
  IF us = <<>> THEN <<>> ELSE Head(us).functionCalls \o AllCalls(Tail(us))

IsRequest(e) == e.type = "tool_call_request"
IsCancelled(e) == e.type = "user_cancelled"

\* the ToolCallRequests among the events, in order
Requests == [i \in 1..Len(SelectSeq(events, IsRequest)) |->
               SelectSeq(events, IsRequest)[i].req]

\* the argument text the backend has sent, and its JSON value
SentText == Take(doc, pos)
SentArgs == ArgsOrEmpty(JSONParse(SentText))

\* the request the Turn is to make for the stream's one tool call
TheRequest ==
  [callId |-> call.id, name |-> call.name, args |-> SentArgs,
   isClientInitiated |-> FALSE]

\* the stream held one tool call, announced with id and name before any of
\* its fragments, and at least one chunk carried a fragment
OneSplitCall ==
  /\ call.headFirst
  /\ call.heads = 1
  /\ Truthy(call.id)
  /\ Truthy(call.name)
  /\ call.frags >= 1

\* an OpenAI-compatible stream of one split tool call, ended by [DONE], has
\* been consumed by the Turn
C1_Fixture ==
  /\ provider = "openai"
  /\ OneSplitCall
  /\ stopSeen
  /\ pc = "completed"
  /\ JSONParse(SentText).ok

\* C1: an OpenAI-compatible stream with one tool call whose argument text is
\* split over N >= 1 chunks and that ends with [DONE] produces exactly one
\* function-call descriptor and exactly one ToolCallRequest, with the first
\* chunk's id and name and args the JSON value of the concatenated fragments.
C1_OneRequestFromFragments ==
  C1_Fixture =>
    /\ AllCalls(units) = <<FunctionCall(call.id, call.name, SentArgs)>>
    /\ Requests = <<TheRequest>>
    /\ SentArgs = JSONParse(SentText).val

C1_Witness ==
  /\ C1_Fixture
  /\ call.frags >= 2
  /\ SentText = <<"{", "k", ":", "1", "2", "}">>
  /\ Requests = << [callId |-> "c1", name |-> "search",
                    args |-> [t |-> "obj",
                              kv |-> << <<"k", [t |-> "num", n |-> 12]>> >>],
                    isClientInitiated |-> FALSE] >>

\* an Anthropic stream of content_block_start (tool_use), input_json_delta
\* events and message_stop has been consumed by the Turn
C2_Fixture ==
  /\ provider = "anthropic"
  /\ OneSplitCall
  /\ stopSeen
  /\ ~call.afterStop
  /\ pc = "completed"
  /\ JSONParse(SentText).ok

\* C2: an Anthropic stream of a content_block_start (tool_use, id, name), then
\* N >= 1 input_json_delta events for its index, then message_stop produces
\* exactly one function-call descriptor and exactly one ToolCallRequest, with
\* that id and name and args the JSON value of the concatenated fragments.
C2_OneRequestFromPartialJson ==
  C2_Fixture =>
    /\ AllCalls(units) = <<FunctionCall(call.id, call.name, SentArgs)>>
    /\ Requests = <<TheRequest>>
    /\ SentArgs = JSONParse(SentText).val

C2_Witness ==
  /\ C2_Fixture
  /\ call.frags >= 2
  /\ SentText = <<"{", "k", ":", "1", "2", "}">>
  /\ Requests = << [callId |-> "c1", name |-> "lookup",
                    args |-> [t |-> "obj",
                              kv |-> << <<"k", [t |-> "num", n |-> 12]>> >>],
                    isClientInitiated |-> FALSE] >>

\* C3: an Azure stream of one tool call whose arguments are split over its
\* chunks and that ends with [DONE] has emitted exactly one function-call
\* descriptor, with the call's id, its name and the complete arguments, and
\* so none that is partial or a duplicate.
C3_AzureNoPartialToolCall ==
  (provider = "azure" /\ OneSplitCall /\ stopSeen /\ JSONParse(SentText).ok) =>
    AllCalls(units) = <<FunctionCall(call.id, call.name, SentArgs)>>

\* C4: in the streams of the three adapters, unparseable lines among the
\* valid ones never end the stream and never change what is emitted: units,
\* accumulator and end of stream are those of the same generator fed the
\* parseable lines only.
C4_GarbageChangesNothing ==
  provider \in WireProviders =>
    /\ units = ref.units
    /\ ad.acc = ref.acc
    /\ ad.idmap = ref.idmap
    /\ ad.status = "returned" => ref.ended
    /\ ref.ended => ad.status \in {"returned", "abandoned"}

C4_Witness ==
  /\ provider \in WireProviders
  /\ weave = 3
  /\ nGarbage = 2
  /\ Len(units) = 2
  /\ units = ref.units
  /\ pc = "completed"

\* C5: a run of Turn.run whose signal is raised after a unit has been
\* processed and before the run has ended, and whose stream does not fail,
\* emits exactly one UserCancelled event, as its last event.
C5_OneCancelledLast ==
  (/\ provider \in WireProviders
   /\ aborted
   /\ failure = "none"
   /\ Len(debugResponses) >= 1
   /\ pc \in {"completed", "cancelled"}) =>
    /\ Len(SelectSeq(events, IsCancelled)) = 1
    /\ IsCancelled(events[Len(events)])

\* C6 as stated: in a run cancelled after unit k, at most k events precede
\* the cancellation event.
C6_AtMostKEvents ==
  pc = "cancelled" => Len(events) - 1 <= Len(debugResponses)

\* C6: in a run of Turn.run cancelled after unit k, the events before the
\* cancellation event are at most one for each of the k units processed plus
\* one for each function-call descriptor of these units.
C6_EventsOfProcessedUnits ==
  pc = "cancelled" =>
    /\ IsCancelled(events[Len(events)])
    /\ Len(events) - 1
         <= Len(debugResponses) + Len(AllCalls(debugResponses))

C6_Witness ==
  /\ pc = "cancelled"
  /\ Len(debugResponses) = 1
  /\ Len(AllCalls(debugResponses)) = 1
  /\ Len(events) = 3

\* C7: once the signal is raised during a streaming exchange, the adapter
\* reads no further from its network stream.
C7_NoReadAfterSignal == ~readAfterAbort

\* the callIds of the run so far
RunCallIds == runCallIds \o CallIdsOf(Requests)

\* C8: every ToolCallRequest of a run has a non-empty callId, and no two
\* ToolCallRequests of the run, of one stream or of successive Turns, have
\* the same callId.
C8_CallIdsNonEmptyUnique ==
  /\ \A i \in 1..Len(RunCallIds) : RunCallIds[i] # ""
  /\ \A i, j \in 1..Len(RunCallIds) : i # j => RunCallIds[i] # RunCallIds[j]

\* within one Turn, every ToolCallRequest has a non-empty callId
NonEmptyCallIds == \A i \in 1..Len(Requests) : Requests[i].callId # ""

\* the executor has been invoked and its last invocation did not find the
\* requested tool
LastNotFound == invocations >= 1 /\ lastCall.req.name \notin toolRegistry

\* C9: executeToolCall for a tool name the registry does not hold does not
\* raise; it returns the request's callId, one function-response part with
\* the request's id and name and {error: 'Tool "<name>" not found in
\* registry.'}, and an error field that is set; it executes no tool.
C9_NotFoundIsStructured ==
  LastNotFound =>
    /\ ~lastCall.out.raised
    /\ lastCall.out.response.callId = lastCall.req.callId
    /\ lastCall.out.response.responseParts =
         << [functionResponse |->
               [id |-> lastCall.req.callId, name |-> lastCall.req.name,
                response |->
                  [error |-> "Tool \"" \o lastCall.req.name
                               \o "\" not found in registry."]]] >>
    /\ lastCall.out.response.error.defined
    /\ lastCall.out.executed = 0

C9_Witness ==
  /\ LastNotFound
  /\ lastCall.req.callId = "c2"
  /\ lastCall.out.response.responseParts[1].functionResponse.response.error
       = "Tool \"foo\" not found in registry."
  /\ lastCall.out.response.error.message
       = "Tool \"foo\" not found in registry."

\* the message the executor is to report for a thrown value
MessageOf(e) == IF e.k = "Error" THEN e.s ELSE StringOf(e)

\* the last invocation resolved its tool and the tool's execute raised
LastThrew ==
  /\ invocations >= 1
  /\ lastCall.req.name \in toolRegistry
  /\ lastCall.beh.kind = "throws"

\* the failure shape of the last invocation, for the message m
LastFailureShape(m) ==
  /\ ~lastCall.out.raised
  /\ lastCall.out.response.callId = lastCall.req.callId
  /\ lastCall.out.response.responseParts =
       << [functionResponse |->
             [id |-> lastCall.req.callId, name |-> lastCall.req.name,
              response |-> [error |-> m]]] >>
  /\ lastCall.out.response.resultDisplay = m
  /\ lastCall.out.response.error = ErrorObj(m)

\* C10: when the resolved tool's execute raises, an Error or any other
\* value, executeToolCall does not raise and returns the failure shape of
\* the not-found path: the request's callId, one function-response part with
\* {error: message} and the request's id and name, resultDisplay the
\* message, and the error field set.
C10_RaiseIsStructured ==
  LastThrew => LastFailureShape(MessageOf(lastCall.beh.thrown))

\* the same for the thrown values that String converts
ConvertibleRaiseIsStructured ==
  (LastThrew /\ CanString(lastCall.beh.thrown)) =>
    LastFailureShape(MessageOf(lastCall.beh.thrown))

\* C11: every invocation of executeToolCall writes exactly one telemetry
\* record, whether the tool is not found, executes, raises, or its output
\* fails to convert to the function-response shape.
C11_OneTelemetryRecord ==
  /\ Len(telemetry) = invocations
  /\ invocations >= 1 => Len(lastCall.out.logs) = 1

\* an invocation that returned a response has written one record, unless
\* the conversion of the tool's output raised
OneRecordOtherwise ==
  (/\ invocations >= 1
   /\ ~lastCall.out.raised
   /\ ~(lastCall.beh.kind = "returns" /\ lastCall.beh.convRaises
        /\ lastCall.req.name \in toolRegistry)) => Len(lastCall.out.logs) = 1

\* the last adapter call was the method op of the adapter p
Called(op, p) == lastApi.op = op /\ lastApi.provider = p

\* C12: embedContent of the Anthropic adapter fails with the explicit error
\* 'Anthropic does not support embeddings' for every request; it returns no
\* vector and sends no network request.
C12_AnthropicEmbedUnsupported ==
  Called("embedContent", "anthropic") =>
    /\ lastApi.raised =
         Raised("Error", <<"Anthropic does not support embeddings">>)
    /\ ~lastApi.embedding
    /\ lastApi.http = <<>>

C12_Witness ==
  /\ Called("embedContent", "anthropic")
  /\ lastApi.answer.ok
  /\ Len(lastApi.request.contents) = 2
  /\ lastApi.raised.pieces = <<"Anthropic does not support embeddings">>

\* the texts ts one after the other
RECURSIVE Concatenated(_)
Concatenated(ts) ==
  IF ts = <<>> THEN <<>>
  ELSE Concatenated(SubSeq(ts, 1, Len(ts) - 1)) \o ts[Len(ts)]

\* the last call was a generateContent that the backend answered with one
\* answer without tool calls
OneAnswerNoToolCalls ==
  /\ lastApi.op = "generateContent"
  /\ lastApi.answer.ok
  /\ IF lastApi.provider = "anthropic"
     THEN \A i \in 1..Len(lastApi.answer.data.content) :
            lastApi.answer.data.content[i].type = "text"
     ELSE /\ lastApi.answer.data.hasChoices
          /\ lastApi.answer.data.tool_calls = <<>>
          /\ lastApi.answer.data.content # Absent

\* the message content of that answer
RawContent ==
  IF lastApi.provider = "anthropic"
  THEN Concatenated([i \in 1..Len(lastApi.answer.data.content) |->
                       lastApi.answer.data.content[i].text])
  ELSE lastApi.answer.data.content

C14_RegisteredOrNamedFailure ==
  (lastCreate.authType # Undefined /\ lastCreate.authType \notin BuiltIn) =>
    IF lastCreate.known = Undefined
    THEN lastCreate.out =
           Created(Undefined,
                   Raised("Error",
                          <<"No content generator available for auth type: ",
                            lastCreate.authType>>))
    ELSE lastCreate.out = Created(lastCreate.known, NoRaise)

C14_Witness ==
  /\ lastCreate.authType = "custom"
  /\ lastCreate.out = Created("B", NoRaise)
  /\ Len(globalContentGeneratorRegistry) = 2
  /\ globalContentGeneratorRegistry[1] = [key |-> "other", ctor |-> "A"]
  /\ globalContentGeneratorRegistry[2].key = "custom"

\* a selector nothing was registered for has been asked for while other
\* selectors had constructors
UnregisteredSelectorFails ==
  /\ lastCreate.authType = "unheard"
  /\ globalContentGeneratorRegistry # <<>>
  /\ lastCreate.out.raised.pieces[2] = "unheard"

\* C15: when the adapter call or the stream fails with a failure classified
\* as an authorization failure, Turn.run raises it again to its caller and
\* emits no event for it and makes no report of it, whether or not the signal
\* has been raised; the events emitted for earlier units stand.
C15_AuthFailureRethrown ==
  [][(failure = "none" /\ failure' = "auth") =>
       /\ pc' = "rethrown"
       /\ events' = events
       /\ reports' = reports]_vars

C15_Witness ==
  /\ failure = "auth"
  /\ pc = "rethrown"
  /\ aborted
  /\ Len(debugResponses) >= 1
  /\ Len(events) >= 1
  /\ \A i \in 1..Len(events) : events[i].type \notin {"error", "user_cancelled"}
  /\ reports = <<>>

\* a run ends by raising to its caller only for an authorization failure
RethrownOnlyForAuth == pc = "rethrown" <=> failure = "auth"

\* C16: when the adapter call or the stream fails with a failure that is not
\* an authorization failure and the signal has not been raised, Turn.run
\* first reports the failure once, with the curated history and the request
\* in flight as context, then emits exactly one Error event {message,
\* status?}, whose status is present only for a failure with a numeric
\* status, and the run stops: no further event follows.
C16_ReportedThenOneErrorEvent ==
  [][/\ (failure = "none" /\ failure' \notin {"none", "auth"} /\ ~aborted) =>
          /\ pc' = "failed"
          /\ reports' =
               Append(reports,
                      [error |-> failure',
                       context |-> <<"curatedHistory", "req">>,
                       at |-> Len(events)])
          /\ events' =
               Append(events,
                      [type |-> "error",
                       error |-> [message |-> failure',
                                  status |-> IF failure' = "status" THEN 500
                                             ELSE 0]])
     /\ pc = "failed" => (events' = events /\ reports' = reports)]_vars

C16_Witness ==
  /\ pc = "failed"
  /\ failure = "status"
  /\ ~aborted
  /\ Len(events) >= 2
  /\ events[Len(events)] =
       [type |-> "error", error |-> [message |-> "status", status |-> 500]]
  /\ reports = << Report("status", Len(events) - 1) >>

\* a failure whose status is not a number gives an Error event without status
TextStatusIsDropped ==
  /\ pc = "failed"
  /\ failure = "text"
  /\ events[Len(events)].error.status = 0

\* the last call was a generation request that the backend answered with a
\* non-success status
StatusFailure ==
  /\ lastApi.op \in {"generateContent", "generateContentStream"}
  /\ ~lastApi.answer.ok

\* the error raised by the last call has the piece of text t in its message
Carries(t) ==
  \E i \in 1..Len(lastApi.raised.pieces) : lastApi.raised.pieces[i] = t

\* C17: for each of the three adapters, generate-once and generate-stream, a
\* non-success HTTP status on the initial request makes the call fail with
\* no unit and no second request, and the error raised carries the status
\* code and the response body, whether the body is JSON or not.
C17_StatusAndBodyInError ==
  StatusFailure =>
    /\ lastApi.raised # NoRaise
    /\ lastApi.resp = NullUnit
    /\ Len(lastApi.http) = 1
    /\ Carries(ToString(lastApi.answer.status))
    /\ Carries(lastApi.answer.body)

\* such a call does fail, with no unit and after one request
StatusFailureFails ==
  StatusFailure =>
    /\ lastApi.raised # NoRaise
    /\ lastApi.resp = NullUnit
    /\ Len(lastApi.http) = 1

\* status and body are both in the error of the Azure stream, and in the
\* Anthropic adapter's when the body is JSON
StatusAndBodyWhereCarried ==
  (/\ StatusFailure
   /\ \/ Called("generateContentStream", "azure")
      \/ lastApi.provider = "anthropic" /\ lastApi.answer.bodyIsJson) =>
    /\ Carries(ToString(lastApi.answer.status))
    /\ Carries(lastApi.answer.body)

\* the error of the OpenAI-compatible adapter, which the Azure adapter's
\* generate-once shares, has the status and the status text only
OpenAIErrorWithoutBody ==
  (/\ StatusFailure
   /\ lastApi.provider # "anthropic"
   /\ ~Called("generateContentStream", "azure")) =>
    lastApi.raised.pieces = <<"HTTP ", ToString(lastApi.answer.status), ": ",
                              lastApi.answer.statusText>>

\* the Anthropic adapter's error for a body that is not JSON has neither
AnthropicErrorWithoutStatus ==
  (StatusFailure /\ lastApi.provider = "anthropic"
     /\ ~lastApi.answer.bodyIsJson) =>
    /\ lastApi.raised.name = "TypeError"
    /\ ~Carries(ToString(lastApi.answer.status))
    /\ ~Carries(lastApi.answer.body)

\* the last call sent a generation request
SentGeneration ==
  /\ lastApi.op \in {"generateContent", "generateContentStream"}
  /\ Len(lastApi.http) = 1

\* the messages of that request made from a Content of the history
ConversationMessages ==
  SelectSeq(lastApi.http[1].messages, LAMBDA m : m.from # 0)

\* the Contents of the history that have at least one part
ContentsWithParts ==
  SelectSeq(lastApi.request.contents, LAMBDA c : c.parts # <<>>)

\* C18: for every history and each of the three adapters, a Content with
\* zero parts is dropped before serialization: no outbound message is made
\* from a zero-part Content, and the number of outbound conversation messages
\* is the number of Contents with at least one part.
C18_ZeroPartContentDropped ==
  SentGeneration =>
    /\ \A i \in 1..Len(ConversationMessages) :
         lastApi.request.contents[ConversationMessages[i].from].parts # <<>>
    /\ Len(ConversationMessages) = Len(ContentsWithParts)

\* the OpenAI-compatible conversion, which the Azure adapter shares, sends
\* one message for every Content, with content '' for one without parts
OpenAISendsEveryContent ==
  (SentGeneration /\ lastApi.provider # "anthropic") =>
    /\ Len(ConversationMessages) = Len(lastApi.request.contents)
    /\ \A i \in 1..Len(ConversationMessages) :
         lastApi.request.contents[ConversationMessages[i].from].parts = <<>>
           => ConversationMessages[i].content = ""

\* the Anthropic conversion sends no message that has no content block, and
\* none for a zero-part Content unless it prepends the JSON instruction to it
AnthropicSendsNoEmptyMessage ==
  (SentGeneration /\ lastApi.provider = "anthropic") =>
    \A i \in 1..Len(ConversationMessages) :
      /\ ConversationMessages[i].content # <<>>
      /\ lastApi.request.contents[ConversationMessages[i].from].parts = <<>>
           => (lastApi.request.json /\ ConversationMessages[i].from = 1)

\* the last call converted the tool calls of a backend answer: a
\* non-streaming answer of the OpenAI-compatible adapter, or the accumulator
\* flushed at the end of an OpenAI-compatible or an Anthropic stream
ToolCallsConverted ==
  \/ lastApi.op = "flush"
  \/ /\ lastApi.op = "generateContent"
     /\ lastApi.provider # "anthropic"
     /\ lastApi.answer.ok
     /\ lastApi.answer.data.hasChoices
     /\ lastApi.answer.data.tool_calls # <<>>

\* the arguments the i-th tool call of the answer is to be emitted with
ExpectedArgs(i) ==
  IF JSONParse(lastApi.answer.data.tool_calls[i].arguments).ok
  THEN JSONParse(lastApi.answer.data.tool_calls[i].arguments).val
  ELSE EmptyObj

MalformedArgsOtherPaths ==
  /\ \/ Called("generateContent", "openai")
     \/ Called("flush", "anthropic")
  /\ lastApi.answer.ok
  /\ lastApi.answer.data.hasChoices
  /\ Len(lastApi.answer.data.tool_calls) = 2
  /\ ~JSONParse(lastApi.answer.data.tool_calls[2].arguments).ok
  /\ lastApi.resp.functionCalls[2] = FunctionCall("b", "lookup", EmptyObj)
  /\ lastApi.resp.functionCalls[1].args # EmptyObj

\* the request r goes to the deployment-scoped URL with the api-version
\* parameter and authenticates with the api-key header, not as a bearer
DeploymentScoped(r) ==
  /\ r.url = "https://host/openai/deployments/m/chat/completions?api-version=v"
  /\ r.headers.api_key = ApiKey
  /\ r.headers.Authorization = Undefined

\* C20: every generation request of the Azure adapter, generate-once and
\* generate-stream, goes to base/openai/deployments/<deployment>/chat/completions
\* with the api-version query parameter and authenticates with the api-key
\* header and not with bearer authorization.
C20_AzureDeploymentUrlAndApiKey ==
  (lastApi.provider = "azure"
     /\ lastApi.op \in {"generateContent", "generateContentStream"}) =>
    \A i \in 1..Len(lastApi.http) : DeploymentScoped(lastApi.http[i])

\* the requests of the Azure adapter's generateContentStream are so
AzureStreamDeploymentScoped ==
  Called("generateContentStream", "azure") =>
    /\ Len(lastApi.http) = 1
    /\ DeploymentScoped(lastApi.http[1])

\* the request of its generateContent is that of the OpenAI-compatible adapter
AzureOnceAsOpenAI ==
  Called("generateContent", "azure") =>
    /\ Len(lastApi.http) = 1
    /\ lastApi.http[1].url = "https://host/chat/completions"
    /\ lastApi.http[1].headers = Headers("Bearer key", Undefined, Undefined)

\* the texts of the sequence xs of units or of sendings
TextsOf(xs) == [i \in 1..Len(xs) |-> xs[i].text]

HasText(u) == TextTruthy(u.text)
HasCalls(u) == u.functionCalls # <<>>

\* C21: in every OpenAI-compatible and Anthropic stream the text deltas are
\* emitted as units, in arrival order, as soon as their line is read; no
\* unit with function-call descriptors is emitted before the terminator is
\* read or the byte stream is exhausted; at most one such unit is emitted,
\* and it is the last unit of the stream.
C21_TextAtOnceCallsAtEnd ==
  /\ TextsOf(SelectSeq(units, HasText)) = TextsOf(SelectSeq(wire, IsTextSending))
  /\ \A i \in 1..Len(units) :
       HasCalls(units[i]) =>
         /\ i = Len(units)
         /\ ad.status = "returned"
         /\ provider = "openai" => wire[Len(wire)].kind = "stop"

C21_Witness ==
  /\ provider = "openai"
  /\ Len(wire) = 4
  /\ wire[2].kind = "head"
  /\ wire[4].kind = "stop"
  /\ units = << Unit(<<"1">>, <<>>, "STOP"), Unit(<<"3">>, <<>>, "STOP"),
                Unit(<<>>, <<FunctionCall("a", "search", EmptyObj)>>,
                     "tool_calls") >>

\* the same on an Anthropic stream, which ends by exhaustion
AnthropicTextThenCalls ==
  /\ provider = "anthropic"
  /\ ad.status = "returned"
  /\ Len(units) = 3
  /\ Len(SelectSeq(units, HasText)) = 2
  /\ HasCalls(units[3])

\* the stream has been consumed to its end with tool calls accumulated
EndedWithAccumulated == ad.status = "returned" /\ Len(ad.acc) >= 1

\* every accumulated call is in exactly one emitted descriptor
FlushedOnce ==
  /\ Len(AllCalls(units)) = Len(ad.acc)
  /\ \A i \in 1..Len(ad.acc) :
       /\ AllCalls(units)[i].id = ad.acc[i].id
       /\ AllCalls(units)[i].name = ad.acc[i].name

\* C22: in every OpenAI-compatible or Anthropic stream that has accumulated
\* at least one tool call and is consumed to its end, the accumulator is
\* flushed exactly once, whether the stream ends with its terminator or by
\* exhaustion of the byte stream: every accumulated call is in exactly one
\* emitted descriptor.
C22_FlushedExactlyOnce == EndedWithAccumulated => FlushedOnce

\* so it is when the OpenAI-compatible stream ends with [DONE], and for
\* every Anthropic stream
FlushedOnceAtTerminator ==
  (EndedWithAccumulated
     /\ (provider = "openai" => wire[Len(wire)].kind = "stop")) => FlushedOnce

\* an OpenAI-compatible stream exhausted without [DONE] emits no descriptor
ExhaustedWithoutFlush ==
  (EndedWithAccumulated /\ provider = "openai"
     /\ wire[Len(wire)].kind # "stop") => AllCalls(units) = <<>>

\* C23: in the Anthropic stream message_stop ends the stream: when it is
\* read the accumulators are flushed, emitted as function-call descriptors
\* in mapping order, and the stream ends; no unit is derived from an event
\* after message_stop and the flush waits for no further input.
C23_MessageStopEndsStream ==
  (provider = "anthropic" /\ stopSeen) =>
    /\ ad.status = "returned"
    /\ wire[Len(wire)].kind = "stop"
    /\ Len(ad.acc) >= 1 => FlushedOnce

\* reading message_stop emits nothing and leaves the generator reading
MessageStopIsIgnored ==
  [][(provider = "anthropic" /\ ~stopSeen /\ stopSeen') =>
       /\ units' = units
       /\ ad'.acc = ad.acc
       /\ ad'.status = "open"]_vars

\* a text delta read after message_stop has been emitted as a unit, and the
\* descriptors after it, when the byte stream was exhausted
UnitAfterMessageStop ==
  /\ provider = "anthropic"
  /\ ad.status = "returned"
  /\ Len(wire) = 3
  /\ wire[2].kind = "stop"
  /\ wire[3].kind = "text"
  /\ Len(units) = 2
  /\ units[1].text = <<"3">>
  /\ HasCalls(units[2])

IsHead(s) == s.kind = "head"

\* the descriptors to be emitted for the calls of the lines sent, in the
\* order of their first chunks, each with the JSON value of its own fragments
ExpectedCalls ==
  [i \in 1..Len(SelectSeq(wire, IsHead)) |->
     FunctionCall(WireCalls[SelectSeq(wire, IsHead)[i].c].id,
                  WireCalls[SelectSeq(wire, IsHead)[i].c].name,
                  ArgsOrEmpty(JSONParse(
                    SentOf(wire, SelectSeq(wire, IsHead)[i].c))))]

\* an OpenAI-compatible stream has ended with [DONE]
EndedAtDone ==
  /\ provider = "openai"
  /\ ad.status = "returned"
  /\ wire # <<>>
  /\ wire[Len(wire)].kind = "stop"

\* C24: in an OpenAI-compatible stream of several tool calls with distinct
\* indices, each with its id on its first chunk only and their chunks
\* interleaved, every fragment goes to the accumulator of the call whose
\* index it carries: at [DONE] one descriptor per index is emitted, in order
\* of first appearance, with its own id and name and the args of its own
\* fragments in arrival order.
C24_FragmentsByIndex ==
  EndedAtDone => AllCalls(units) = ExpectedCalls

C24_Witness ==
  /\ EndedAtDone
  /\ [i \in 1..Len(wire) |-> wire[i].c] = <<2, 1, 1, 2, 1, 2, 0>>
  /\ AllCalls(units) =
       << FunctionCall("b", "lookup",
                       [t |-> "obj",
                        kv |-> << <<"k", [t |-> "num", n |-> 2]>> >>]),
          FunctionCall("a", "search",
                       [t |-> "obj",
                        kv |-> << <<"k", [t |-> "num", n |-> 1]>> >>]) >>

\* an OpenAI-compatible stream of one tool call (index 0) whose first chunk
\* carried a fragment but no id, the id arriving on a later chunk, has ended
\* with [DONE] and been consumed by the Turn
LateIdStream ==
  /\ provider = "openai"
  /\ call.any
  /\ ~call.headFirst
  /\ call.heads = 1
  /\ Truthy(call.id)
  /\ stopSeen
  /\ pc = "completed"

\* an OpenAI-compatible stream of one tool call (index 0) none of whose chunks
\* carried an id has ended with [DONE] and been consumed by the Turn
NoIdStream ==
  /\ provider = "openai"
  /\ call.any
  /\ call.heads = 0
  /\ stopSeen
  /\ pc = "completed"

\* C25: in an OpenAI-compatible stream all fragments of one positional index
\* are accumulated into a single entry even when the call's id arrives only
\* on a chunk later than the first one for that index, or never arrives:
\* exactly one descriptor is emitted for the index, with args built from all
\* its fragments and with the backend's id when one was supplied.
C25_StableAccumulatorKey ==
  /\ LateIdStream =>
       /\ Len(AllCalls(units)) = 1
       /\ AllCalls(units)[1].id = call.id
       /\ AllCalls(units)[1].args = SentArgs
  /\ NoIdStream =>
       /\ Len(AllCalls(units)) = 1
       /\ AllCalls(units)[1].args = SentArgs

\* when no chunk carries an id the key call_0 is the same for every chunk:
\* one descriptor, with all the fragments
NoIdOneEntry ==
  NoIdStream => AllCalls(units) = <<FunctionCall("call_0", "", SentArgs)>>

\* the fragments sent before the id and those sent with or after it end in
\* two entries, and so in two descriptors
LateIdSplitsEntry ==
  /\ LateIdStream
  /\ SentText = <<"{", "k", ":", "1", "2", "}">>
  /\ Len(AllCalls(units)) = 2
  /\ AllCalls(units)[1].id = "call_0"
  /\ AllCalls(units)[1].args = EmptyObj
  /\ AllCalls(units)[2].id = call.id
  /\ AllCalls(units)[2].args = EmptyObj

\* a unit reaches the Turn while the cancellation token is signaled
UnitWhileAborted == aborted /\ Len(units') = Len(units) + 1

\* C26: a unit received while the cancellation token is already signaled is
\* not processed: the Turn emits a single UserCancelled event and terminates,
\* derives no Content, Thought or ToolCallRequest event from the unit, leaves
\* pendingToolCalls unchanged and does not record the unit in the debug
\* responses; the events of earlier units stand, and nothing is emitted after
\* the cancellation.
C26_AbortedUnitNotProcessed ==
  [][ /\ UnitWhileAborted =>
           /\ events' = Append(events, UserCancelledEvent)
           /\ pc' = "cancelled"
           /\ pendingToolCalls' = pendingToolCalls
           /\ debugResponses' = debugResponses
      /\ pc = "cancelled" =>
           /\ pc' = "cancelled"
           /\ events' = events
           /\ pendingToolCalls' = pendingToolCalls
           /\ debugResponses' = debugResponses ]_vars

\* a unit with text and a function call arrived after the signal, after a
\* unit that was processed: one Content event, then the cancellation
C26_Witness ==
  /\ aborted
  /\ pc = "cancelled"
  /\ Len(units) = 2
  /\ TextTruthy(units[2].text)
  /\ units[2].functionCalls # <<>>
  /\ debugResponses = <<units[1]>>
  /\ events = <<ContentEvent(units[1].text), UserCancelledEvent>>
  /\ pendingToolCalls = <<>>

\* the adapter call or a read of the stream fails with a failure that is not
\* an authorization failure, while cancellation has been requested
FailsWhileAborted ==
  aborted /\ failure = "none" /\ failure' \notin {"none", "auth"}

\* C27: when the adapter call or stream fails with a non-authorization
\* failure while cancellation has been requested, the Turn emits exactly one
\* UserCancelled event and stops: no Error event is emitted and the
\* error-reporting sink is not called.
C27_FailureWhileCancelledIsSilent ==
  [][ /\ FailsWhileAborted =>
           /\ events' = Append(events, UserCancelledEvent)
           /\ pc' = "cancelled"
           /\ reports' = reports
      /\ pc = "cancelled" => (pc' = "cancelled" /\ events' = events
                               /\ reports' = reports) ]_vars

\* a stream that had yielded a text unit failed with a status error after the
\* signal was raised
C27_Witness ==
  /\ aborted
  /\ failure = "status"
  /\ pc = "cancelled"
  /\ reports = <<>>
  /\ Len(units) = 1
  /\ events = <<ContentEvent(units[1].text), UserCancelledEvent>>

\* the unit the Turn has just received
LastUnit(us) == us[Len(us)]

\* the Turn processes a unit whose first part carries the thought marker
ThoughtProcessed ==
  ~aborted /\ Len(units') = Len(units) + 1 /\ LastUnit(units').thought

\* C28: for a unit whose first content part carries the thought marker the
\* Turn emits exactly one Thought event and nothing else: no Content and no
\* ToolCallRequest event is derived from it, pendingToolCalls is unchanged by
\* it, and the run continues with the next unit.
C28_ThoughtOnly ==
  [][ ThoughtProcessed =>
        /\ events' = Append(events,
             ThoughtEvent(ThoughtSummary(LastUnit(units').text)))
        /\ pendingToolCalls' = pendingToolCalls
        /\ pc' = "streaming" ]_vars

\* a thought that also carried a function call was followed by a unit with
\* text and a call: one Thought event, then the events of the next unit
C28_Witness ==
  /\ Len(units) = 2
  /\ units[1].thought
  /\ units[1].functionCalls # <<>>
  /\ ~units[2].thought
  /\ Len(events) = 3
  /\ events[1] = ThoughtEvent([subject |-> <<>>, description |-> <<"D">>])
  /\ events[2].type = "content"
  /\ events[3].type = "tool_call_request"
  /\ Len(pendingToolCalls) = 1

\* the Turn processes a unit that is not a thought
PlainProcessed ==
  ~aborted /\ Len(units') = Len(units) + 1 /\ ~LastUnit(units').thought

\* the events the Turn has emitted in this step
NewEvents == SubSeq(events', Len(events) + 1, Len(events'))

IsContent(e) == e.type = "content"

\* C29: for a processed unit that is not a thought the Turn emits a Content
\* event if and only if the unit's answer text is non-empty, at most one per
\* unit and carrying exactly that text; the end-of-stream function-call unit
\* of an adapter, whose text is empty, yields no Content event.
C29_ContentIffText ==
  [][ PlainProcessed =>
        /\ Len(events') >= Len(events)
        /\ SelectSeq(NewEvents, IsContent) =
             IF TextTruthy(getResponseText(LastUnit(units')))
             THEN <<ContentEvent(getResponseText(LastUnit(units')))>>
             ELSE <<>>
        /\ LastUnit(units').finishReason = "tool_calls" =>
             /\ LastUnit(units').text = <<>>
             /\ SelectSeq(NewEvents, IsContent) = <<>> ]_vars

\* an OpenAI-compatible stream sent a text delta and a tool call and ended:
\* one Content event for the text unit, none for the function-call unit
C29_Witness ==
  /\ provider = "openai"
  /\ pc = "completed"
  /\ Len(units) = 2
  /\ units[1].text = <<"t">>
  /\ units[2].finishReason = "tool_calls"
  /\ units[2].text = <<>>
  /\ Len(events) = 2
  /\ events[1] = ContentEvent(<<"t">>)
  /\ events[2].type = "tool_call_request"

\* the requests of the function-call descriptors of the unit processed in
\* this step, none when it is a thought or no unit is processed
RequestsOfStep ==
  IF ~aborted /\ Len(units') = Len(units) + 1 /\ ~LastUnit(units').thought
  THEN handlePendingFunctionCalls(LastUnit(units').functionCalls, genCount)
  ELSE <<>>

\* C30: at every point of a Turn's life pendingToolCalls is exactly the
\* sequence of values of the ToolCallRequest events emitted so far, in
\* emission order, and every entry has isClientInitiated = false.
C30_PendingIsRequests ==
  /\ pendingToolCalls = Requests
  /\ \A i \in 1..Len(pendingToolCalls) :
       pendingToolCalls[i].isClientInitiated = FALSE

\* one entry is appended per function-call descriptor of each processed
\* non-thought unit; entries are never removed, reordered or changed
PendingOnlyGrows ==
  [][ /\ pendingToolCalls' = pendingToolCalls \o RequestsOfStep
      /\ Len(RequestsOfStep) =
           IF ~aborted /\ Len(units') = Len(units) + 1
                /\ ~LastUnit(units').thought
           THEN Len(LastUnit(units').functionCalls) ELSE 0 ]_vars

\* two units with function calls were processed, the second with two calls:
\* three entries, those of the three events
C30_Witness ==
  /\ Len(units) = 2
  /\ Len(units[1].functionCalls) = 1
  /\ Len(units[2].functionCalls) = 2
  /\ Len(pendingToolCalls) = 3
  /\ pendingToolCalls = Requests
  /\ pendingToolCalls[3].name = "undefined_tool_name"

IsTerminal(e) == e.type \in {"user_cancelled", "error"}
NotTerminal(e) == ~IsTerminal(e)

\* the events of the unit u, in the order the claims give them: the Thought
\* event of a thought; otherwise the Content event of its text, then one
\* ToolCallRequest per descriptor, in the descriptors' order
EventsInOrder(u, n) ==
  IF u.thought THEN <<ThoughtEvent(ThoughtSummary(u.text))>>
  ELSE (IF TextTruthy(u.text) THEN <<ContentEvent(u.text)>> ELSE <<>>)
       \o [i \in 1..Len(u.functionCalls) |->
             ToolCallRequestEvent(
               handlePendingFunctionCalls(u.functionCalls, n)[i])]

\* the events of the units us, unit after unit; n is the stamp of the next
\* generated call id, which advances as in Deliver
RECURSIVE EventsOfUnits(_, _)
EventsOfUnits(us, n) ==
  IF us = <<>> THEN <<>>
  ELSE EventsInOrder(Head(us), n)
       \o EventsOfUnits(Tail(us), n + NumGenerated(Head(us).functionCalls))

\* C31: the Turn preserves the order of the adapter's units: every event
\* derived from unit i is emitted before every event derived from unit j for
\* i < j, and within one unit the Content event precedes the ToolCallRequest
\* events, which follow the order of the unit's function-call descriptors.
C31_EventsInUnitOrder ==
  SelectSeq(events, NotTerminal) = EventsOfUnits(debugResponses, 0)

\* a unit with text and a call, then a unit with two calls, were processed
C31_Witness ==
  /\ Len(debugResponses) = 2
  /\ TextTruthy(debugResponses[1].text)
  /\ Len(debugResponses[1].functionCalls) = 1
  /\ Len(debugResponses[2].functionCalls) = 2
  /\ Len(events) = 4
  /\ events[1].type = "content"
  /\ events[2].type = "tool_call_request"
  /\ events[3].req.name = "search"
  /\ events[4].req.name = "undefined_tool_name"

\* the last invocation wrote a telemetry record with success = true
WroteSuccess ==
  \E i \in 1..Len(lastCall.out.logs) : lastCall.out.logs[i].success

\* the last invocation returned a response whose error field is none
ReturnedNoError ==
  ~lastCall.out.raised /\ ~lastCall.out.response.error.defined

\* the tool was found, its execute returned and its output was converted
FoundReturnedConverted ==
  /\ lastCall.req.name \in toolRegistry
  /\ lastCall.beh.kind = "returns"
  /\ ~lastCall.beh.convRaises

\* C32: for every invocation of executeToolCall the outcome recorded in
\* telemetry agrees with the returned response: a record with success = true
\* is written if and only if the returned error field is none, which happens
\* exactly when the tool was found, its execute returned and its output was
\* converted; in that case callId is the request's and the tool was invoked
\* once.
C32_TelemetryAgreesWithResponse ==
  invocations >= 1 =>
    /\ WroteSuccess <=> ReturnedNoError
    /\ ReturnedNoError <=> FoundReturnedConverted
    /\ ReturnedNoError =>
         /\ lastCall.out.response.callId = lastCall.req.callId
         /\ lastCall.out.executed = 1

\* the returned response has no error exactly when the tool was found,
\* returned and its output was converted, and then a success record was
\* written, the callId is the request's and the tool ran once
NoErrorIsSuccess ==
  invocations >= 1 =>
    /\ ReturnedNoError <=> FoundReturnedConverted
    /\ ReturnedNoError =>
         /\ WroteSuccess
         /\ lastCall.out.response.callId = lastCall.req.callId
         /\ lastCall.out.executed = 1

\* the tool's execute returned and the conversion of its output raised: a
\* success record and a failure record, and a response with the error set
SuccessLoggedFailureReturned ==
  /\ invocations >= 1
  /\ lastCall.beh.kind = "returns"
  /\ lastCall.beh.convRaises
  /\ Len(lastCall.out.logs) = 2
  /\ lastCall.out.logs[1].success
  /\ ~lastCall.out.logs[2].success
  /\ lastCall.out.response.error = ErrorObj("conversion")

\* the generator of a wire adapter has left its try block
Exited == ad.status \in {"returned", "threw", "abandoned"}

\* C33: the stream reader acquired by an adapter's streaming call is released
\* exactly once on every exit path after its acquisition: exhaustion of the
\* byte stream, the [DONE] terminator, an error raised by a read, and
\* abandonment of the sequence by the consumer; no path leaves the reader
\* locked.
C33_ReaderReleasedOnce ==
  provider \in WireProviders =>
    /\ ad.reader.releases <= 1
    /\ ad.reader.state = "locked" <=>
         (ad.status = "open" /\ ad.reader.releases = 0
            /\ ad.reader # NoReader)
    /\ (Exited /\ ad.reader # NoReader) =>
         ad.reader = [state |-> "released", releases |-> 1]
    /\ ad.status \in {"returned", "abandoned"} => ad.reader # NoReader

\* the Turn returned on cancellation while the generator was suspended at a
\* yield, after two reads
C33_Witness ==
  /\ provider = "openai"
  /\ ad.status = "abandoned"
  /\ pc = "cancelled"
  /\ nLines = 2
  /\ ad.reader = [state |-> "released", releases |-> 1]

\* the other exits: the terminator, the end of the bytes, a failing read
ReleasedAtTerminator ==
  /\ provider = "azure" /\ stopSeen /\ ad.status = "returned"
  /\ ad.reader = [state |-> "released", releases |-> 1]

ReleasedAtExhaustion ==
  /\ provider = "anthropic" /\ ~stopSeen /\ ad.status = "returned"
  /\ units # <<>>
  /\ ad.reader = [state |-> "released", releases |-> 1]

ReleasedAtFailingRead ==
  /\ provider = "openai" /\ ad.status = "threw" /\ nLines >= 1
  /\ ad.reader = [state |-> "released", releases |-> 1]

\* the runs of the Turn whose request is in flight
InFlight == { r \in Runs : conc[r].status = "open" }

\* C34: at any time at most one streaming request issued by a Turn instance
\* is in flight: run cannot issue a second request on the same Turn while an
\* earlier run of that Turn is still streaming.
C34_OneRequestInFlight == Cardinality(InFlight) <= 1

\* two runs of the Turn are streaming at once, the lines of their streams
\* interleaved
TwoRunsStreaming ==
  /\ InFlight = Runs
  /\ conc[1].units # <<>> /\ conc[2].units # <<>>
  /\ heap[conc[1].maps].acc # <<>> /\ heap[conc[2].maps].acc # <<>>

\* what the generator of the run r yields when it is fed the lines ls alone,
\* from maps of its own: st is its state so far
ConcFolded(st, step) ==
  [acc |-> step.acc, idmap |-> step.idmap,
   units |-> IF step.out = NullUnit THEN st.units
             ELSE Append(st.units, step.out),
   ended |-> step.ended]

RECURSIVE Alone(_, _)
Alone(ls, st) ==
  IF ls = <<>> \/ st.ended THEN st
  ELSE Alone(Tail(ls), ConcFolded(st, ConcLine(st, Head(ls))))

AloneFromEmpty(ls) ==
  Alone(ls, [acc |-> <<>>, idmap |-> EmptyIndexMap, units |-> <<>>,
             ended |-> FALSE])

\* the units of a stream that got the lines ls and has the state status
UnitsAlone(ls, status) ==
  IF provider = "anthropic" /\ status = "returned"
       /\ AnthropicFlush(AloneFromEmpty(ls)) # NullUnit
  THEN Append(AloneFromEmpty(ls).units, AnthropicFlush(AloneFromEmpty(ls)))
  ELSE AloneFromEmpty(ls).units

\* C35: accumulator state never leaks between streams: when two streams are
\* open at the same time on the same adapter instance and their chunks are
\* processed in any interleaving, the descriptors each stream emits are built
\* only from that stream's own fragments, also when both use the same index
\* or the same call id, and a stream that starts after another ended or was
\* cancelled starts with an empty accumulator.
C35_NoLeakBetweenStreams ==
  \A r \in Runs :
    conc[r].status # "idle" =>
      /\ conc[r].units = UnitsAlone(conc[r].lines, conc[r].status)
      /\ conc[r].lines = <<>> =>
           heap[conc[r].maps] = [acc |-> <<>>, idmap |-> EmptyIndexMap]
      /\ \A q \in Runs \ {r} :
           conc[q].status # "idle" => conc[q].maps # conc[r].maps

\* two streams with the same index and the same call id are open at the same
\* time, the second with half of its argument text accumulated, and the first
\* has emitted its own arguments at its terminator
C35_Witness ==
  /\ provider = "openai"
  /\ conc[1].status = "returned"
  /\ conc[2].status = "open"
  /\ conc[2].maps < conc[1].maps
  /\ heap[conc[2].maps].acc =
       <<[id |-> "a", name |-> "search", arguments |-> <<"{", "k", ":">>,
          key |-> "a"]>>
  /\ AllCalls(conc[1].units) =
       <<FunctionCall("a", "search",
                      [t |-> "obj", kv |-> << <<"k", [t |-> "num", n |-> 1]>> >>])>>

\* both streams have ended, each with its own arguments
BothEmittedOwn ==
  /\ provider = "anthropic"
  /\ conc[1].status = "returned" /\ conc[2].status = "returned"
  /\ AllCalls(conc[1].units) =
       <<FunctionCall("a", "search",
                      [t |-> "obj", kv |-> << <<"k", [t |-> "num", n |-> 1]>> >>])>>
  /\ AllCalls(conc[2].units) =
       <<FunctionCall("a", "search",
                      [t |-> "obj", kv |-> << <<"k", [t |-> "num", n |-> 2]>> >>])>>

\* one stream was abandoned with calls accumulated; the other, whose Maps
\* were made later, has emitted its own call only
StartedAfterAbandoned ==
  /\ conc[1].status = "abandoned"
  /\ heap[conc[1].maps].acc # <<>>
  /\ conc[1].maps < conc[2].maps
  /\ conc[2].status = "returned"
  /\ Len(AllCalls(conc[2].units)) = 1
  /\ AllCalls(conc[2].units)[1].args =
       [t |-> "obj", kv |-> << <<"k", [t |-> "num", n |-> 2]>> >>]

\* the last call sent a generation request that demands schema-constrained
\* JSON, through the OpenAI-compatible or the Anthropic adapter
SentJsonRequest ==
  /\ SentGeneration
  /\ lastApi.request.json
  /\ lastApi.provider \in {"openai", "anthropic"}

\* the texts of the outbound messages, in order: the content of an OpenAI
\* message, the texts of the blocks of an Anthropic message
RECURSIVE OutboundTexts(_)
OutboundTexts(messages) ==
  IF messages = <<>> THEN <<>>
  ELSE (IF lastApi.provider = "anthropic"
        THEN [i \in 1..Len(Head(messages).content) |->
                Head(messages).content[i].text]
        ELSE <<Head(messages).content>>) \o OutboundTexts(Tail(messages))

IsInstruction(t) == t = JsonInstruction

\* C36: whenever a request demands schema-constrained JSON, the outbound
\* request of the OpenAI-compatible and of the Anthropic adapter contains
\* exactly one leading instruction carrying the literal schema and the
\* instruction to emit JSON only, placed before all conversation content, for
\* every history, including histories that are empty or whose first Content
\* does not have the user role.
C36_OneLeadingJsonInstruction ==
  SentJsonRequest =>
    /\ OutboundTexts(lastApi.http[1].messages) # <<>>
    /\ Head(OutboundTexts(lastApi.http[1].messages)) = JsonInstruction
    /\ Len(SelectSeq(OutboundTexts(lastApi.http[1].messages),
                     IsInstruction)) = 1

\* the OpenAI-compatible adapter does so for every history
OpenAILeadsWithInstruction ==
  (SentJsonRequest /\ lastApi.provider = "openai") =>
    /\ Head(lastApi.http[1].messages) = Message("system", JsonInstruction, 0)
    /\ Len(SelectSeq(OutboundTexts(lastApi.http[1].messages),
                     IsInstruction)) = 1

\* the Anthropic adapter does so when the first Content has the user role
AnthropicLeadsWhenUserFirst ==
  (SentJsonRequest /\ lastApi.provider = "anthropic"
     /\ lastApi.request.contents # <<>>
     /\ lastApi.request.contents[1].role = "user") =>
    /\ Head(OutboundTexts(lastApi.http[1].messages)) = JsonInstruction
    /\ Len(SelectSeq(OutboundTexts(lastApi.http[1].messages),
                     IsInstruction)) = 1

\* an Anthropic request that demands JSON and carries no instruction at all:
\* the first Content of its history has the model role
AnthropicNoInstruction ==
  /\ SentJsonRequest
  /\ lastApi.provider = "anthropic"
  /\ Len(lastApi.request.contents) = 2
  /\ lastApi.request.contents[1].role = "model"
  /\ lastApi.http[1].messages # <<>>
  /\ SelectSeq(OutboundTexts(lastApi.http[1].messages), IsInstruction) = <<>>

\* the UserCancelled and Error events emitted so far
TerminalEvents == SelectSeq(events, IsTerminal)

\* the run is over: drained, cancelled, failed with an Error event, or failed
\* with the authorization failure re-raised
RunOver == pc \in {"completed", "cancelled", "failed", "rethrown"}

\* C37: every run of the Turn ends in exactly one of three ways: the stream is
\* drained with no terminal event, or one UserCancelled event is emitted, or
\* the run fails (one Error event is emitted, or an authorization failure is
\* re-raised).  At most one event of UserCancelled and Error is emitted per
\* run, it is the final event, and after it the engine emits nothing and
\* requests no further unit from the stream.
C37_OneTerminalOutcome ==
  /\ pc \in {"idle", "streaming"} \cup {"completed", "cancelled", "failed",
                                         "rethrown"}
  /\ Len(TerminalEvents) <= 1
  /\ TerminalEvents # <<>> =>
       /\ events[Len(events)] = TerminalEvents[1]
       /\ RunOver
  /\ pc \in {"idle", "streaming", "completed", "rethrown"} =>
       TerminalEvents = <<>>
  /\ pc = "cancelled" => TerminalEvents = <<UserCancelledEvent>>
  /\ pc = "failed" =>
       /\ Len(TerminalEvents) = 1
       /\ TerminalEvents[1].type = "error"
  /\ pc = "rethrown" => failure = "auth"
  /\ RunOver => ad.status \in {"returned", "threw", "abandoned"}

\* a stream failed while the signal was raised, after two units: the events
\* of the units, then the one cancellation event
C37_Witness ==
  /\ pc = "cancelled"
  /\ failure = "other"
  /\ Len(units) = 2
  /\ Len(events) >= 3
  /\ events[Len(events)] = UserCancelledEvent
  /\ Len(TerminalEvents) = 1
  /\ ad.status = "threw"

\* the other ends are reached: drained, failed with an Error event, and the
\* authorization failure re-raised
EndsDrained == pc = "completed" /\ units # <<>> /\ TerminalEvents = <<>>
EndsFailed ==
  /\ pc = "failed"
  /\ units # <<>>
  /\ events[Len(events)].type = "error"
EndsRethrown == pc = "rethrown" /\ events # <<>> /\ TerminalEvents = <<>>

(* --------------------------------- C38 --------------------------------- *)

\* the generator that received the bytes read so far as one chunk
OneRead ==
  IF net.read = 0 THEN NewGenerator
  ELSE ReadChunk(provider, NewGenerator, Take(net.stream, net.read))

OneReadToEnd == ReadDone(provider, ReadChunk(provider, NewGenerator, net.stream))

\* C38: the units an adapter stream has emitted depend only on the bytes it
\* has received and not on the reads that delivered them: after any cutting
\* of the bytes into chunks, lines and characters cut in the middle included,
\* the units, their order, the accumulated tool calls and the end of the
\* stream are those of the same bytes received in a single read.
C38_UnitsIndependentOfChunking ==
  /\ net.status = "open" =>
       /\ net.g.units = OneRead.units
       /\ net.g.acc = OneRead.acc
       /\ net.g.ended = OneRead.ended
  /\ net.status = "done" => net.g.units = OneReadToEnd.units

\* a line has been emitted, and the reads have cut the following line in
\* the middle of its character of two bytes
C38_Witness ==
  /\ net.status = "open"
  /\ net.g.pending = <<LeadByte>>
  /\ net.g.buffer = DataPrefix \o <<"{", "t">>
  /\ Len(net.g.units) = 1

\* a read has ended in the middle of the prefix of the second line
CutInsidePrefix ==
  /\ net.status = "open"
  /\ net.g.buffer = <<"d", "a">>
  /\ Len(net.g.units) = 1

(* --------------------------------- C39 --------------------------------- *)

IsBlockStart(e) == e.type = "content_block_start" /\ e.sub = "tool_use"
IsJsonDelta(e) == e.type = "content_block_delta" /\ e.sub = "input_json_delta"

\* the block indices the events of sent have registered
Registered(sent) ==
  { sent[i].index : i \in { j \in 1..Len(sent) : IsBlockStart(sent[j]) } }

\* the last content_block_start of sent for the block index
LastStart(sent, index) ==
  sent[CHOOSE i \in 1..Len(sent) :
         /\ IsBlockStart(sent[i]) /\ sent[i].index = index
         /\ \A j \in (i + 1)..Len(sent) :
              ~(IsBlockStart(sent[j]) /\ sent[j].index = index)]

\* the step reads an input_json_delta whose block index is not registered
OrphanDelta ==
  /\ blocks.status = "open"
  /\ blocks'.status = "open"
  /\ Len(blocks'.sent) = Len(blocks.sent) + 1
  /\ IsJsonDelta(LastUnit(blocks'.sent))
  /\ LastUnit(blocks'.sent).index \notin Registered(blocks.sent)

\* the accumulators are those of the registered indices, and the
\* descriptors of an exhausted stream are one for each of them, with the id
\* and name of its block
DescriptorsFromStarts ==
  /\ { blocks.acc[i].key : i \in 1..Len(blocks.acc) }
       = { IndexKey(x) : x \in Registered(blocks.sent) }
  /\ Len(blocks.acc) = Cardinality(Registered(blocks.sent))
  /\ blocks.status = "open" => AllCalls(blocks.units) = <<>>
  /\ blocks.status = "done" =>
       /\ Len(AllCalls(blocks.units)) = Cardinality(Registered(blocks.sent))
       /\ \A x \in Registered(blocks.sent) :
            \E i \in 1..Len(AllCalls(blocks.units)) :
              /\ AllCalls(blocks.units)[i].id = LastStart(blocks.sent, x).id
              /\ AllCalls(blocks.units)[i].name
                   = LastStart(blocks.sent, x).name

\* C39: in the Anthropic stream an input_json_delta whose block index no
\* content_block_start of type tool_use has registered is dropped: the step
\* leaves every accumulator and the emitted units as they were.  So the
\* accumulators are exactly those of the registered indices, and the
\* descriptors of an exhausted stream are one for each registered index,
\* with the id and name of that block.
C39_OrphanDeltaDropped ==
  /\ []DescriptorsFromStarts
  /\ [][OrphanDelta => /\ blocks'.acc = blocks.acc
                       /\ blocks'.units = blocks.units]_vars

\* index 0 was registered, argument text arrived for it and for the indices
\* 1 and 2 that were not, and the exhausted stream has emitted one descriptor
C39_Witness ==
  /\ blocks.status = "done"
  /\ Len(blocks.sent) = 4
  /\ IsBlockStart(blocks.sent[1]) /\ blocks.sent[1].index = 0
  /\ \A i \in 2..4 : IsJsonDelta(blocks.sent[i])
  /\ { blocks.sent[i].index : i \in 2..4 } = {0, 1, 2}
  /\ Len(AllCalls(blocks.units)) = 1
  /\ AllCalls(blocks.units)[1].id = blocks.sent[1].id

\* argument text arrived for index 0 before its block started, and is not
\* part of the call
OrphanBeforeStart ==
  /\ blocks.status = "open"
  /\ Len(blocks.sent) = 2
  /\ IsJsonDelta(blocks.sent[1]) /\ blocks.sent[1].index = 0
  /\ IsBlockStart(blocks.sent[2]) /\ blocks.sent[2].index = 0
  /\ Len(blocks.acc) = 1 /\ blocks.acc[1].input = <<>>

(* --------------------------------- C40 --------------------------------- *)

\* the adapter of a built-in selector
BuiltInAdapter(authType) ==
  IF authType = "anthropic" THEN "AnthropicContentGenerator"
  ELSE IF authType = "azure" THEN "AzureContentGenerator"
  ELSE "OpenAICompatibleContentGenerator"

\* C40: whatever has been registered, under a built-in selector too,
\* createCustomContentGenerator for a built-in selector (openai-compatible,
\* local-llm, anthropic, azure) returns an instance of its built-in adapter
\* and never one of a registered constructor; local-llm gives the
\* OpenAI-compatible adapter.
C40_BuiltInSelectorWins ==
  lastCreate.authType \in BuiltIn =>
    /\ lastCreate.out = Created(BuiltInAdapter(lastCreate.authType), NoRaise)
    /\ lastCreate.out.class \notin Classes

\* a constructor is registered under local-llm and local-llm was resolved to
\* the OpenAI-compatible adapter
C40_Witness ==
  /\ lastCreate.authType = "local-llm"
  /\ MapHas(globalContentGeneratorRegistry, "local-llm")
  /\ lastCreate.known \in Classes
  /\ lastCreate.out.class = "OpenAICompatibleContentGenerator"

\* constructors are registered under azure and local-llm, and azure was
\* resolved to the Azure adapter
BuiltInsShadowed ==
  /\ \A s \in Selectors \cap BuiltIn :
       MapHas(globalContentGeneratorRegistry, s)
  /\ lastCreate.authType = "azure"
  /\ lastCreate.known \in Classes
  /\ lastCreate.out.class = "AzureContentGenerator"

====
